---- MODULE Spec2Model ----
(***************************************************************************)
(* Tournaments, rankings and chat of the GRINDZONE server                  *)
(* (src/models/Tournament.js, src/routes/tournaments.js,                   *)
(* src/routes/leaderboard.js, src/routes/chat.js, src/routes/users.js,     *)
(* src/unnamed/part_000, src/unnamed/part_002).                            *)
(*                                                                         *)
(* Spec is the registration service: createTournament, getTournament,      *)
(* register and unregister, interleaved.  SpecStatus is the lifecycle      *)
(* alone, over every schedule; SpecCancel adds the out-of-band             *)
(* cancellation to it.  SpecGenerate is the bracket generator on every     *)
(* roster; SpecBracket is bracket generation and match results on a        *)
(* tournament created with confirmed teams; SpecUnregister is unregister   *)
(* next to bracket generation and chat as time passes.  SpecLeaderboard    *)
(* and SpecNeighbors are the ranking queries on every user collection,     *)
(* SpecRerank the batch re-rank.  SpecList is the tournament list next to  *)
(* getTournament as time passes.  SpecChat is the chat routes (post,       *)
(* delete) next to unregister, SpecChatRead the chat routes with the       *)
(* paged read, SpecChatMutations a post next to every other mutation of    *)
(* the tournament.  SpecBroadcast is the Socket.IO server alone (src/      *)
(* unnamed/part_000), SpecChatBroadcast the Socket.IO server of one        *)
(* connection next to the chat route; SpecChatBroadcastFair adds that a    *)
(* handler which has started runs to its response.                         *)
(*                                                                         *)
(* SpecRerankStats is the batch re-rank next to the score updates of a     *)
(* user (src/routes/users.js), SpecRerankReads the batch re-rank with one  *)
(* ranking read (leaderboard page, podium, getUserRank, user search) at    *)
(* any point of it, SpecPodium the podium next to the score updates.       *)
(* SpecCore is register, unregister, bracket generation and result         *)
(* recording on a tournament created with an empty roster; SpecChatPages   *)
(* is the paged chat read on every page, past the last one included.       *)
(*                                                                         *)
(* The variable io is the Socket.IO server: the open connections, the      *)
(* rooms each has joined, the events emitted and the events each           *)
(* connection has received.                                                *)
(*                                                                         *)
(* The Durable Store holds one tournament document and the user documents. *)
(* A request handler is an async function: it runs synchronously up to its *)
(* next `await`, so every handler is modelled as the sequence of its       *)
(* awaited store calls, one action per call, each action holding the       *)
(* store call and the synchronous code that follows it.  Between two       *)
(* actions of one request any action of another request may run.           *)
(*                                                                         *)
(* `document.save()` is Mongoose's: it sends only what the handler changed *)
(* on its local copy.  A changed scalar is written as the local value      *)
(* ($set), an array push is appended to the stored array ($push) and       *)
(* increments the document version without testing it, and an array that   *)
(* was spliced or reassigned is written whole ($set) under the condition   *)
(* that the stored version is still the loaded one (otherwise the save     *)
(* throws a VersionError and writes nothing).                              *)
(***************************************************************************)
EXTENDS Integers, Sequences, FiniteSets, TLC

\* ---------------------------------------------------------------- bounds
\* Wall-clock instants are 0..MaxTime.
MaxTime == 3
\* Requests that may be in flight at the same time.
MaxInFlight == 2
\* Largest document version the model lets a save produce.
MaxVersion == 3
\* Users are 1..NumUsers.
NumUsers == 3
\* Largest capacity a createTournament request asks for.
MaxCapacity == 2

\* Largest roster handed to the bracket generator.
MaxRoster == 8

\* Scores are 0..MaxScore.
MaxScore == 1
\* Users of the neighbor-window runs are 1..NumRanked.
NumRanked == 7
\* Largest page and largest limit asked of a leaderboard.
MaxPage == 2
MaxLimit == 2

\* Socket.IO connections are 1..MaxConns.
MaxConns == 2
\* Rooms are asked for by the tournament ids 1..NumRooms; the stored
\* tournament has id 1.
NumRooms == 2
\* Most events the server emits in a run.
MaxEvents == 2

\* body('participants.maxTeams').isInt({ min: 2 })
MinTeams == 2

Users == 1..NumUsers
Instants == 0..MaxTime
Slots == 1..MaxInFlight
Capacities == MinTeams..MaxCapacity

\* ----------------------------------------------------------------- state
VARIABLES
  now,          \* the wall clock read by `new Date()`
  tournament,   \* the stored tournament document (exists = FALSE: none yet)
  users,        \* the stored user documents, by user id
  reqs,         \* the requests in flight, by slot
  last,         \* the response sent last
  io            \* the Socket.IO server: connections, rooms, emitted events

vars == <<now, tournament, users, reqs, last, io>>

\* The collection before createTournament: findById yields null.
NoTournament ==
  [ exists |-> FALSE, status |-> "draft",
    registrationStart |-> 0, registrationEnd |-> 0, tournamentStart |-> 0,
    hasEnd |-> FALSE, tournamentEnd |-> 0,
    maxTeams |-> 0, currentTeams |-> 0, teams |-> <<>>,
    totalRegistrations |-> 0, organizer |-> 0, version |-> 0,
    brackets |-> <<>>, chat |-> <<>> ]

\* A user document: the tournaments list holds `tournaments` entries that
\* refer to the tournament; `version` is the document version.  The
\* ranking reads isActive, stats.totalScore, stats.totalWins,
\* stats.totalLosses and the gameStats entries (game, score, rank, wins,
\* losses) and writes stats.globalRank and gameStats.rank; rank 0 is the
\* null of the schema.
NewUser ==
  [ tournaments |-> 0, version |-> 0, isActive |-> TRUE, totalScore |-> 0,
    globalRank |-> 0, gameStats |-> <<>>, totalWins |-> 0, totalLosses |-> 0 ]

\* What a request carries besides its caller: the matchId, winner and score
\* of PUT /:id/match/:matchId, the message of a chat post, and the game,
\* result and score of PUT /api/users/stats.
NoStat == [ game |-> "none", result |-> "none", score |-> 0 ]

NoBody ==
  [ matchId |-> <<>>, winner |-> 0, score |-> <<>>, message |-> "",
    stat |-> NoStat ]

\* A request in flight: its position, its caller, its local copies of the
\* tournament and of the user, and for the batch re-rank the scope at hand
\* and the sorted rows it read.
IdleReq ==
  [ pc |-> "idle", op |-> "none", user |-> 0, doc |-> NoTournament,
    udoc |-> NewUser, modified |-> FALSE, body |-> NoBody,
    scope |-> "none", list |-> <<>> ]

\* A response: the operation, the caller, the outcome, and what the body
\* carries of the tournament (its status for a read, currentTeams for a
\* registration) or of the ranking (userRank and the rows of a leaderboard
\* page or of a neighbor window), or of the chat (the messages of a page
\* and pagination.hasMore).
NoResponse ==
  [ op |-> "none", user |-> 0, result |-> "none", status |-> "none",
    currentTeams |-> 0, scope |-> "none", page |-> 0, limit |-> 0,
    userRank |-> 0, rows |-> <<>>, hasMore |-> FALSE ]

Response(op, u, result, st, n) ==
  [ NoResponse EXCEPT !.op = op, !.user = u, !.result = result, !.status = st,
                      !.currentTeams = n ]

\* The response of a ranking query, with the query it answers: the user
\* asked for (getUserRank), the scope (a game, or "overall"), page and limit.
RankResponse(op, u, scope, page, limit, result, rank, rows) ==
  [ NoResponse EXCEPT !.op = op, !.user = u, !.scope = scope, !.page = page,
                      !.limit = limit, !.result = result,
                      !.userRank = rank, !.rows = rows ]

\* The Socket.IO server before any connection.  Per connection (socket):
\* whether it is open, the tournament ids its join-tournament events asked
\* for, the rooms it is in, and the events it was sent; `emitted` lists the
\* events the server emitted, in order.
Conns == 1..MaxConns
RoomIds == 1..NumRooms

NoIo ==
  [ connected |-> [ c \in Conns |-> FALSE ],
    joined |-> [ c \in Conns |-> {} ],
    rooms |-> [ c \in Conns |-> {} ],
    delivered |-> [ c \in Conns |-> <<>> ],
    emitted |-> <<>> ]

\* ------------------------------------------------------- Tournament model

\* updateStatus with the registration window closed one instant early.
updateStatusEarlyClose(d, t) ==
  IF t < d.registrationStart THEN "draft"
  ELSE IF t >= d.registrationStart /\ t < d.registrationEnd THEN "registration"
  ELSE IF t >= d.registrationEnd /\ t < d.tournamentStart THEN "upcoming"
  ELSE IF t >= d.tournamentStart /\ (~d.hasEnd \/ t <= d.tournamentEnd) THEN "live"
  ELSE IF d.hasEnd /\ t > d.tournamentEnd THEN "completed"
  ELSE d.status

\* tournamentSchema.methods.updateStatus: the status it leaves on document d
\* when `new Date()` is t.
updateStatus(d, t) ==
  IF t < d.registrationStart THEN "draft"
  ELSE IF t >= d.registrationStart /\ t <= d.registrationEnd THEN "registration"
  ELSE IF t > d.registrationEnd /\ t < d.tournamentStart THEN "upcoming"
  ELSE IF t >= d.tournamentStart /\ (~d.hasEnd \/ t <= d.tournamentEnd) THEN "live"
  ELSE IF d.hasEnd /\ t > d.tournamentEnd THEN "completed"
  ELSE d.status

\* virtual('registrationOpen')
registrationOpen(d, t) ==
  t >= d.registrationStart /\ t <= d.registrationEnd /\ d.status = "registration"

\* tournament.participants.teams.some(team => team.players.some(...))
alreadyRegistered(d, u) ==
  \E k \in 1..Len(d.teams) : d.teams[k].userId = u

\* teamData with status 'confirmed'.
teamDataConfirmed(u) == [ teamId |-> u, userId |-> u, status |-> "confirmed" ]

\* teamData of POST /:id/register: a solo team, the user id as team id.
teamData(u) == [ teamId |-> u, userId |-> u, status |-> "registered" ]

\* registerTeam with the capacity test off by one (> for >=).
registerTeamCheckOffByOne(d, t) ==
  IF d.currentTeams > d.maxTeams THEN "Conflict"
  ELSE IF ~registrationOpen(d, t) THEN "RegistrationClosed"
  ELSE "ok"

\* tournamentSchema.methods.registerTeam: the error it throws ('Tournament is
\* full', 'Registration is not open') or "ok".
registerTeamCheck(d, t) ==
  IF d.currentTeams >= d.maxTeams THEN "Conflict"
  ELSE IF ~registrationOpen(d, t) THEN "RegistrationClosed"
  ELSE "ok"

\* The local document after registerTeam(teamData) went through.
registerTeam(d, team) ==
  [ d EXCEPT !.teams = Append(@, team),
             !.currentTeams = @ + 1,
             !.totalRegistrations = @ + 1 ]

\* teams.findIndex(team => team.players.some(...)): 0 stands for -1.
teamIndex(d, u) ==
  IF alreadyRegistered(d, u)
  THEN CHOOSE k \in 1..Len(d.teams) :
         /\ d.teams[k].userId = u
         /\ \A j \in 1..(k - 1) : d.teams[j].userId # u
  ELSE 0

\* splice removing the last entry whatever the index.
spliceLast(s, k) == SubSeq(s, 1, Len(s) - 1)

\* teams.splice(k, 1)
splice(s, k) == [ j \in 1..(Len(s) - 1) |-> IF j < k THEN s[j] ELSE s[j + 1] ]

\* ------------------------------------------------------------ the bracket
\* The decimal digits of a number, as `${n}` writes them.
RECURSIVE Digits(_)
Digits(n) ==
  LET d == << "0", "1", "2", "3", "4", "5", "6", "7", "8", "9" >>
  IN IF n < 10 THEN << d[n + 1] >> ELSE Digits(n \div 10) \o << d[(n % 10) + 1] >>

\* `R${round}M${i + 1}`, k standing for i + 1.
matchId(round, k) == << "R" >> \o Digits(round) \o << "M" >> \o Digits(k)

\* Math.ceil(Math.log2(n)) for n >= 1: the least r with 2^r >= n.
RECURSIVE CeilLog2(_)
CeilLog2(n) == IF n <= 1 THEN 0 ELSE 1 + CeilLog2((n + 1) \div 2)

\* The rounds of generateBrackets for n confirmed teams.  For n = 0 the
\* logarithm is -Infinity and the loop `round <= rounds` never runs.
roundsOf(n) == IF n = 0 THEN 0 ELSE CeilLog2(n)

\* participants.teams.filter(team => team.status === 'confirmed')
confirmedTeams(d) == SelectSeq(d.teams, LAMBDA t : t.status = "confirmed")

\* newMatch seeding round 1 from the second team on.
newMatchShifted(round, k, teams) ==
  [ matchId |-> matchId(round, k),
    team1 |-> IF round = 1 /\ 2 * k <= Len(teams) THEN teams[2 * k].teamId ELSE 0,
    team2 |-> IF round = 1 /\ 2 * k + 1 <= Len(teams) THEN teams[2 * k + 1].teamId ELSE 0,
    winner |-> 0, score |-> <<>>, status |-> "pending" ]

\* A match as generateBrackets pushes it: team 0 is an empty slot (null, or
\* the undefined of teams[k]?.teamId), winner 0 and score <<>> are unset.
newMatch(round, k, teams) ==
  [ matchId |-> matchId(round, k),
    team1 |-> IF round = 1 /\ 2 * k - 1 <= Len(teams) THEN teams[2 * k - 1].teamId ELSE 0,
    team2 |-> IF round = 1 /\ 2 * k <= Len(teams) THEN teams[2 * k].teamId ELSE 0,
    winner |-> 0, score |-> <<>>, status |-> "pending" ]

\* generateBrackets with the matches of round r counted as 2^(rounds - r + 1).
generateBracketsDoubled(d) ==
  LET teams == confirmedTeams(d)
      rounds == roundsOf(Len(teams))
  IN [ round \in 1..rounds |->
         [ round |-> round,
           matches |-> [ k \in 1..(2 ^ (rounds - round + 1)) |->
                           newMatch(round, k, teams) ] ] ]

\* generateBrackets keeping a bracket that already has rounds.
generateBracketsKeeping(d) ==
  LET teams == confirmedTeams(d)
      rounds == roundsOf(Len(teams))
  IN IF d.brackets # <<>>
     THEN d.brackets
     ELSE [ round \in 1..rounds |->
              [ round |-> round,
                matches |-> [ k \in 1..((2 ^ (rounds - round + 1)) \div 2) |->
                                newMatch(round, k, teams) ] ] ]

\* tournamentSchema.methods.generateBrackets: the bracket it assigns to
\* this.brackets.  Round `round` holds teamsInRound / 2 matches, with
\* teamsInRound = 2^(rounds - round + 1).
generateBrackets(d) ==
  LET teams == confirmedTeams(d)
      rounds == roundsOf(Len(teams))
  IN [ round \in 1..rounds |->
         [ round |-> round,
           matches |-> [ k \in 1..((2 ^ (rounds - round + 1)) \div 2) |->
                           newMatch(round, k, teams) ] ] ]

\* ----------------------------------------------------- the ranking engine
\* The games of the model, in the order of the list of POST /update-ranks.
GameList == << "valorant", "cs2" >>

Games == { GameList[k] : k \in 1..Len(GameList) }

\* The scope of a ranking query: a game, or overall.
Scopes == Games \cup { "overall" }

\* The gameStats entries of user document ud for game g.
statsFor(ud, g) == { k \in 1..Len(ud.gameStats) : ud.gameStats[k].game = g }

\* scopeRows without the isActive filter.
scopeRowsOfAll(us, g) ==
  IF g = "overall"
  THEN { [ userId |-> u, score |-> us[u].totalScore ] : u \in DOMAIN us }
  ELSE UNION { { [ userId |-> u, score |-> us[u].gameStats[k].score ] :
                   k \in { j \in 1..Len(us[u].gameStats) :
                             us[u].gameStats[j].game = g } } :
               u \in DOMAIN us }

\* The rows the pipelines sort in scope g of the collection us: the active
\* users with their totalScore (overall), the unwound gameStats entries of
\* game g of the active users with their score (for a game).
scopeRows(us, g) ==
  IF g = "overall"
  THEN { [ userId |-> u, score |-> us[u].totalScore ] :
           u \in { v \in DOMAIN us : us[v].isActive } }
  ELSE UNION { { [ userId |-> u, score |-> us[u].gameStats[k].score ] :
                   k \in statsFor(us[u], g) } :
               u \in { v \in DOMAIN us : us[v].isActive } }

\* $sort by descending score: every order of the rows in which the scores
\* never increase (rows of equal score come in any order).
RECURSIVE SortedSeqs(_)
SortedSeqs(rows) ==
  IF rows = {} THEN { <<>> }
  ELSE UNION { { << x >> \o t : t \in SortedSeqs(rows \ { x }) } :
               x \in { y \in rows : \A z \in rows : y.score >= z.score } }

\* $skip, then $limit.
skipLimit(sorted, skip, limit) ==
  IF skip >= Len(sorted) THEN <<>>
  ELSE SubSeq(sorted, skip + 1,
              IF skip + limit < Len(sorted) THEN skip + limit ELSE Len(sorted))

\* leaderboard.map((user, index) => ({ ...user, rank: first + index })),
\* k standing for index + 1.
withRanks(rows, first) ==
  [ k \in 1..Len(rows) |->
      [ userId |-> rows[k].userId, score |-> rows[k].score,
        rank |-> first + k - 1 ] ]

\* GET /api/leaderboard/game/:game: the pipeline and the ranks.
GameLeaderboard(g, page, limit) ==
  /\ \E sorted \in SortedSeqs(scopeRows(users, g)) :
       last' = RankResponse("game", 0, g, page, limit, "ok", 0,
                 withRanks(skipLimit(sorted, (page - 1) * limit, limit),
                           (page - 1) * limit + 1))
  /\ UNCHANGED <<now, tournament, users, reqs, io>>

\* GET /api/leaderboard/global (scope "overall" without a game filter, a
\* game with ?game=): the same pipeline with another $project stage at its
\* end.  The stage computes
\* rank as $add of (page - 1) * limit and '$$ROOT._id'; _id is an ObjectId,
\* which $add does not take, so the aggregation fails on the first row
\* that reaches the stage and the handler answers 500.
GlobalLeaderboard(g, page, limit) ==
  /\ \E sorted \in SortedSeqs(scopeRows(users, g)) :
       last' = IF skipLimit(sorted, (page - 1) * limit, limit) # <<>>
               THEN RankResponse("global", 0, g, page, limit, "ServerError", 0, <<>>)
               ELSE RankResponse("global", 0, g, page, limit, "ok", 0, <<>>)
  /\ UNCHANGED <<now, tournament, users, reqs, io>>

\* The window of getUserRank: $skip max(0, userRank - 6), $limit 11, ranks
\* from max(1, userRank - 5).
WindowSkip == 6
WindowLimit == 11
WindowBack == 5

\* userScore of getUserRank for user document ud in scope g.
userScore(ud, g) ==
  IF g = "overall" THEN ud.totalScore
  ELSE IF statsFor(ud, g) = {} THEN 0
  ELSE ud.gameStats[CHOOSE k \in statsFor(ud, g) :
                      \A j \in statsFor(ud, g) : k <= j].score

\* rankQuery counting only the users who have a cached global rank.
aboveRanked(ud, g, score) ==
  /\ ud.isActive /\ ud.globalRank # 0
  /\ IF g = "overall" THEN ud.totalScore > score
     ELSE /\ { k \in 1..Len(ud.gameStats) : ud.gameStats[k].game = g } # {}
          /\ \E k \in 1..Len(ud.gameStats) : ud.gameStats[k].score > score

\* rankQuery of getUserRank: user document ud counts as above `score` in
\* scope g.  For a game the query holds two conditions on the array,
\* 'gameStats.game': g and 'gameStats.score': { $gt: score }, each met by
\* any entry.
above(ud, g, score) ==
  /\ ud.isActive
  /\ IF g = "overall" THEN ud.totalScore > score
     ELSE /\ statsFor(ud, g) # {}
          /\ \E k \in 1..Len(ud.gameStats) : ud.gameStats[k].score > score

\* rankedPlayers of getUserRank.
neighbors(rows, first, u) ==
  [ k \in 1..Len(rows) |->
      [ userId |-> rows[k].userId, score |-> rows[k].score,
        rank |-> first + k - 1, isCurrentUser |-> (rows[k].userId = u) ] ]

\* GET /api/leaderboard/user/:userId/rank
GetUserRank(u, g) ==
  /\ IF u \notin DOMAIN users
     THEN last' = RankResponse("rank", u, g, 0, 0, "NotFound", 0, <<>>)
     ELSE LET usersAbove == Cardinality({ v \in DOMAIN users :
                                           above(users[v], g, userScore(users[u], g)) })
              userRank == usersAbove + 1
              skip == IF userRank - WindowSkip > 0 THEN userRank - WindowSkip ELSE 0
              first == IF userRank - WindowBack > 1 THEN userRank - WindowBack ELSE 1
          IN \E sorted \in SortedSeqs(scopeRows(users, g)) :
               last' = RankResponse("rank", u, g, 0, 0, "ok", userRank,
                         neighbors(skipLimit(sorted, skip, WindowLimit), first, u))
  /\ UNCHANGED <<now, tournament, users, reqs, io>>

\* ------------------------------------ GET /api/leaderboard/top3/:game?
\* Rows pushed on the podium.
PodiumSize == 3

\* The rows the pipeline of the podium sorts in scope g of the collection
\* us, each with the position of its gameStats entry (0 in the overall
\* scope, where no entry is unwound).
podiumRows(us, g) ==
  IF g = "overall"
  THEN { [ userId |-> u, score |-> us[u].totalScore, entry |-> 0 ] :
           u \in { v \in DOMAIN us : us[v].isActive } }
  ELSE UNION { { [ userId |-> u, score |-> us[u].gameStats[k].score, entry |-> k ] :
                   k \in statsFor(us[u], g) } :
               u \in { v \in DOMAIN us : us[v].isActive } }

\* The wins and losses the winRate of the podium is computed from:
\* stats.wins and stats.losses, `stats` being the unwound gameStats entry
\* for a game and user.stats in the overall scope, which has totalWins and
\* totalLosses and no wins or losses (undefined || 0).
winRateStats(ud, g, k) ==
  IF g = "overall" THEN [ wins |-> 0, losses |-> 0 ]
  ELSE [ wins |-> ud.gameStats[k].wins, losses |-> ud.gameStats[k].losses ]

\* (wins / totalGames * 100).toFixed(1), in tenths of a percent; 0 without
\* games.
winRate(st) ==
  IF st.wins + st.losses > 0
  THEN (2000 * st.wins + (st.wins + st.losses)) \div (2 * (st.wins + st.losses))
  ELSE 0

\* podium = top3.map((user, index) => ...), k standing for index + 1.
podium(us, g, rows) ==
  [ k \in 1..Len(rows) |->
      LET ud == us[rows[k].userId]
      IN [ userId |-> rows[k].userId,
           rank |-> k,
           score |-> rows[k].score,
           wins |-> IF g = "overall" THEN ud.totalWins
                    ELSE ud.gameStats[rows[k].entry].wins,
           winRate |-> winRate(winRateStats(ud, g, rows[k].entry)) ] ]

\* GET /api/leaderboard/top3/:game?
Top3(g) ==
  /\ \E sorted \in SortedSeqs(podiumRows(users, g)) :
       last' = RankResponse("top3", 0, g, 0, 0, "ok", 0,
                 podium(users, g, skipLimit(sorted, 0, PodiumSize)))
  /\ UNCHANGED <<now, tournament, users, reqs, io>>

\* ------------------------------------------------ GET /api/users/search
\* User.find({ $or: [...], isActive: true }).limit(limit).sort(...): the
\* active users among `matching`, the users whose username or display name
\* the query matches, by descending totalScore, the first `limit` of them.
SearchUsers(matching, limit) ==
  /\ \E sorted \in SortedSeqs({ [ userId |-> u, score |-> users[u].totalScore ] :
                                  u \in { v \in matching : users[v].isActive } }) :
       last' = RankResponse("search", 0, "overall", 0, limit, "ok", 0,
                            skipLimit(sorted, 0, limit))
  /\ UNCHANGED <<now, tournament, users, reqs, io>>

\* ----------------------------------- POST /api/leaderboard/update-ranks
\* The rank written for the row at position k of the sorted rows, k
\* standing for index + 1, counted from 0.
positionRankFromZero(k) == k - 1

\* The rank written for the row at position k of the sorted rows: index + 1,
\* k standing for index + 1.
positionRank(k) == k

\* setRank with the update of the overall scope taken as a replacement of
\* the user's stats.
setRankReplacing(ud, g, r) ==
  IF g = "overall"
  THEN [ ud EXCEPT !.globalRank = r, !.totalScore = 0,
                   !.totalWins = 0, !.totalLosses = 0 ]
  ELSE IF { k \in 1..Len(ud.gameStats) : ud.gameStats[k].game = g } = {} THEN ud
  ELSE [ ud EXCEPT !.gameStats[CHOOSE k \in 1..Len(ud.gameStats) :
                                 /\ ud.gameStats[k].game = g
                                 /\ \A j \in 1..(k - 1) : ud.gameStats[j].game # g].rank = r ]

\* One updateOne of the bulk: stats.globalRank of the user, or the rank of
\* the first gameStats entry of game g ('gameStats.$.rank').
setRank(ud, g, r) ==
  IF g = "overall" THEN [ ud EXCEPT !.globalRank = r ]
  ELSE IF statsFor(ud, g) = {} THEN ud
  ELSE [ ud EXCEPT !.gameStats[CHOOSE k \in statsFor(ud, g) :
                                 \A j \in statsFor(ud, g) : k <= j].rank = r ]

\* User.bulkWrite(bulkOps): the updates of the rows from position k on, in
\* order.
RECURSIVE bulkWrite(_, _, _, _)
bulkWrite(us, g, list, k) ==
  IF k > Len(list) THEN us
  ELSE bulkWrite([ us EXCEPT ![list[k].userId] = setRank(@, g, positionRank(k)) ],
                 g, list, k + 1)

\* The scope after g in the run: the games in the order of the list, then
\* "done".
nextScope(g) ==
  IF g = "overall" THEN GameList[1]
  ELSE LET k == CHOOSE j \in 1..Len(GameList) : GameList[j] = g
       IN IF k < Len(GameList) THEN GameList[k + 1] ELSE "done"

\* Slot i after the scope at hand: the next scope, or idle after the last.
afterScope(r) ==
  IF nextScope(r.scope) = "done" THEN IdleReq
  ELSE [ r EXCEPT !.pc = "find", !.scope = nextScope(r.scope), !.list = <<>> ]

\* The request arrives and sends User.find({ isActive: true }).sort(...).
RerankCall(i) ==
  /\ reqs[i].pc = "idle"
  /\ reqs' = [ reqs EXCEPT ![i] =
                [ IdleReq EXCEPT !.pc = "find", !.op = "rerank", !.scope = "overall" ] ]
  /\ UNCHANGED <<now, tournament, users, last, io>>

\* The sorted rows of the scope at hand arrive (find for the overall scope,
\* aggregate for a game); without rows there is no bulkWrite and the run
\* goes on to the next scope.
RerankFind(i) ==
  /\ reqs[i].pc = "find" /\ reqs[i].op = "rerank"
  /\ \E sorted \in SortedSeqs(scopeRows(users, reqs[i].scope)) :
       IF sorted # <<>>
       THEN /\ reqs' = [ reqs EXCEPT ![i].pc = "write", ![i].list = sorted ]
            /\ UNCHANGED last
       ELSE /\ reqs' = [ reqs EXCEPT ![i] = afterScope(reqs[i]) ]
            /\ last' = IF nextScope(reqs[i].scope) = "done"
                       THEN Response("rerank", 0, "ok", "none", 0)
                       ELSE last
  /\ UNCHANGED <<now, tournament, users, io>>

\* await User.bulkWrite(...): the ranks of the scope at hand are written.
RerankWrite(i) ==
  /\ reqs[i].pc = "write" /\ reqs[i].op = "rerank"
  /\ users' = bulkWrite(users, reqs[i].scope, reqs[i].list, 1)
  /\ reqs' = [ reqs EXCEPT ![i] = afterScope(reqs[i]) ]
  /\ last' = IF nextScope(reqs[i].scope) = "done"
             THEN Response("rerank", 0, "ok", "none", 0)
             ELSE last
  /\ UNCHANGED <<now, tournament, io>>

\* -------------------------------------------------- PUT /api/users/stats
\* Most results a user reports in a run.
MaxGamesPlayed == 2

\* The overall statistics after the handler's updates for body b.
withOverall(ud, b) ==
  [ ud EXCEPT !.totalWins = IF b.result = "win" THEN @ + 1 ELSE @,
              !.totalLosses = IF b.result = "loss" THEN @ + 1 ELSE @,
              !.totalScore = @ + b.score ]

\* user.gameStats.find(stat => stat.game === game): the position of the
\* first entry of game g, 0 for undefined.
gameStatsIndex(ud, g) ==
  IF statsFor(ud, g) = {} THEN 0
  ELSE CHOOSE k \in statsFor(ud, g) : \A j \in statsFor(ud, g) : k <= j

\* The entry pushed for a game without one.  push casts the plain object
\* to a new subdocument, so the additions the handler makes afterwards to
\* the plain object do not reach the array: the entry is stored with the
\* zeros it was pushed with.
newGameStats(g) ==
  [ game |-> g, score |-> 0, rank |-> 0, wins |-> 0, losses |-> 0 ]

\* The gameStats of the local copy after the handler's updates for body b.
withGame(ud, b) ==
  LET k == gameStatsIndex(ud, b.game)
  IN IF k = 0
     THEN [ ud EXCEPT !.gameStats = Append(@, newGameStats(b.game)) ]
     ELSE [ ud EXCEPT !.gameStats[k] =
              [ @ EXCEPT !.wins = IF b.result = "win" THEN @ + 1 ELSE @,
                         !.losses = IF b.result = "loss" THEN @ + 1 ELSE @,
                         !.score = @ + b.score ] ]

\* What user.save() sends for local copy `local` loaded as `loaded`, applied
\* to the stored document sd: every changed number under stats and under
\* the entry at k is set to its local value, a pushed entry is appended
\* and increments the version.
saveStats(sd, loaded, local, k) ==
  LET s1 == [ sd EXCEPT
                !.totalWins = IF local.totalWins # loaded.totalWins
                              THEN local.totalWins ELSE @,
                !.totalLosses = IF local.totalLosses # loaded.totalLosses
                                THEN local.totalLosses ELSE @,
                !.totalScore = IF local.totalScore # loaded.totalScore
                               THEN local.totalScore ELSE @ ]
  IN IF k = 0
     THEN [ s1 EXCEPT !.gameStats = Append(@, local.gameStats[Len(local.gameStats)]),
                      !.version = @ + 1 ]
     ELSE [ s1 EXCEPT !.gameStats[k] =
              [ @ EXCEPT
                  !.wins = IF local.gameStats[k].wins # loaded.gameStats[k].wins
                           THEN local.gameStats[k].wins ELSE @,
                  !.losses = IF local.gameStats[k].losses # loaded.gameStats[k].losses
                             THEN local.gameStats[k].losses ELSE @,
                  !.score = IF local.gameStats[k].score # loaded.gameStats[k].score
                            THEN local.gameStats[k].score ELSE @ ] ]

\* The request of user u arrives and sends User.findById.
StatsLoad(i, u, b) ==
  /\ reqs[i].pc = "idle"
  /\ users[u].totalWins + users[u].totalLosses < MaxGamesPlayed
  /\ users[u].version < MaxVersion
  /\ reqs' = [ reqs EXCEPT ![i] =
                [ IdleReq EXCEPT !.pc = "saveU", !.op = "stats", !.user = u,
                                 !.udoc = users[u],
                                 !.body = [ NoBody EXCEPT !.stat = b ] ] ]
  /\ UNCHANGED <<now, tournament, users, last, io>>

\* findById has returned and the handler has updated its copy: await
\* user.save().  The entry of an existing game is set by its position
\* (lastPlayed always changes), which Mongoose sends under the loaded
\* version; a mismatch is a VersionError, answered 500.
StatsSave(i) ==
  /\ reqs[i].pc = "saveU" /\ reqs[i].op = "stats"
  /\ LET r == reqs[i]
         b == r.body.stat
         k == gameStatsIndex(r.udoc, b.game)
         local == withGame(withOverall(r.udoc, b), b)
     IN IF k # 0 /\ users[r.user].version # r.udoc.version
        THEN /\ last' = Response("stats", r.user, "ServerError", "none", 0)
             /\ UNCHANGED users
        ELSE /\ last' = Response("stats", r.user, "ok", "none", 0)
             /\ users' = [ users EXCEPT ![r.user] = saveStats(@, r.udoc, local, k) ]
  /\ reqs' = [ reqs EXCEPT ![i] = IdleReq ]
  /\ UNCHANGED <<now, tournament, io>>

\* ------------------------------------------------------------------ Init
Init ==
  /\ now = 0
  /\ tournament = NoTournament
  /\ users = [ u \in Users |-> NewUser ]
  /\ reqs = [ i \in Slots |-> IdleReq ]
  /\ last = NoResponse
  /\ io = NoIo

\* The wall clock advances.
Tick ==
  /\ now < MaxTime
  /\ now' = now + 1
  /\ UNCHANGED <<tournament, users, reqs, last, io>>

\* POST /api/tournaments: new Tournament(body), updateStatus(), save().
CreateTournament(u, rs, re, ts, he, te, cap) ==
  /\ ~tournament.exists
  /\ LET d == [ NoTournament EXCEPT
                  !.exists = TRUE,
                  !.registrationStart = rs, !.registrationEnd = re,
                  !.tournamentStart = ts, !.hasEnd = he,
                  !.tournamentEnd = IF he THEN te ELSE 0,
                  !.maxTeams = cap, !.organizer = u ]
     IN tournament' = [ d EXCEPT !.status = updateStatus(d, now) ]
  /\ last' = Response("create", u, "ok", tournament'.status, 0)
  /\ UNCHANGED <<now, users, reqs, io>>

\* ------------------------------------------------------------ GET /:id
\* findById, then the synchronous updateStatus() on the loaded copy.
GetLoad(i) ==
  /\ reqs[i].pc = "idle"
  /\ IF ~tournament.exists
     THEN /\ last' = Response("get", 0, "NotFound", "none", 0)
          /\ UNCHANGED reqs
     ELSE /\ reqs' = [ reqs EXCEPT ![i] =
                 [ IdleReq EXCEPT
                     !.pc = "saveT", !.op = "get",
                     !.doc = [ tournament EXCEPT !.status = updateStatus(tournament, now) ],
                     !.modified = (updateStatus(tournament, now) # tournament.status) ] ]
          /\ UNCHANGED last
  /\ UNCHANGED <<now, tournament, users, io>>

\* tournament.save() writes the status when updateStatus changed it; the
\* response carries the local copy.
GetSave(i) ==
  /\ reqs[i].pc = "saveT" /\ reqs[i].op = "get"
  /\ tournament' = IF reqs[i].modified
                   THEN [ tournament EXCEPT !.status = reqs[i].doc.status ]
                   ELSE tournament
  /\ last' = Response("get", 0, "ok", reqs[i].doc.status, 0)
  /\ reqs' = [ reqs EXCEPT ![i] = IdleReq ]
  /\ UNCHANGED <<now, users, io>>

\* ------------------------------------------------- GET /api/tournaments
\* The values of the status filter; "any" is a request without one.
StatusFilters ==
  { "any", "draft", "registration", "upcoming", "live", "completed" }

\* Tournament.find(filter): filter.status is compared with the stored
\* status.
matchesFilter(d, f) == f = "any" \/ d.status = f

\* The request: Tournament.find(filter) and the response with the documents
\* as they are stored (countDocuments only feeds the page count).
ListTournaments(f) ==
  /\ last' = [ NoResponse EXCEPT
                 !.op = "list", !.result = "ok", !.scope = f,
                 !.rows = IF tournament.exists /\ matchesFilter(tournament, f)
                          THEN << [ status |-> tournament.status ] >>
                          ELSE <<>> ]
  /\ UNCHANGED <<now, tournament, users, reqs, io>>

\* ---------------------------------------------------- POST /:id/register
\* Tournament.findById.  (The model admits no further registration or
\* unregistration once the stored version has reached MaxVersion.)
RegisterLoad(i, u) ==
  /\ reqs[i].pc = "idle"
  /\ tournament.version < MaxVersion
  /\ IF ~tournament.exists
     THEN /\ last' = Response("register", u, "NotFound", "none", 0)
          /\ UNCHANGED reqs
     ELSE /\ reqs' = [ reqs EXCEPT ![i] =
                 [ IdleReq EXCEPT !.pc = "loaded", !.op = "register",
                                  !.user = u, !.doc = tournament ] ]
          /\ UNCHANGED last
  /\ UNCHANGED <<now, tournament, users, io>>

\* The handler with registerTeam's tests run before the duplicate check.
registerOutcomeCapacityFirst(d, u, t) ==
  IF registerTeamCheck(d, t) # "ok" THEN registerTeamCheck(d, t)
  ELSE IF alreadyRegistered(d, u) THEN "DuplicateRegistration"
  ELSE "ok"

\* The outcome of the synchronous part of the handler on the loaded copy d
\* for caller u at time t: the duplicate check, then registerTeam.
registerOutcome(d, u, t) ==
  IF alreadyRegistered(d, u) THEN "DuplicateRegistration"
  ELSE registerTeamCheck(d, t)

\* User.findById, the duplicate check and registerTeam(teamData) on the
\* local copy; an error is answered at once.
RegisterCheck(i) ==
  /\ reqs[i].pc = "loaded" /\ reqs[i].op = "register"
  /\ LET r == reqs[i]
         out == registerOutcome(r.doc, r.user, now)
     IN IF out # "ok"
        THEN /\ last' = Response("register", r.user, out, "none", 0)
             /\ reqs' = [ reqs EXCEPT ![i] = IdleReq ]
        ELSE /\ reqs' = [ reqs EXCEPT ![i] =
                    [ r EXCEPT !.pc = "saveT",
                               !.doc = registerTeam(r.doc, teamData(r.user)),
                               !.udoc = users[r.user] ] ]
             /\ UNCHANGED last
  /\ UNCHANGED <<now, tournament, users, io>>

\* What tournament.save() of a registration leaves in the store s, given the
\* local copy d: the pushed team is appended to the stored roster, the two
\* counters are set to the local values, the version is incremented.
saveRegistration(s, d) ==
  [ s EXCEPT !.teams = Append(@, d.teams[Len(d.teams)]),
             !.currentTeams = d.currentTeams,
             !.totalRegistrations = d.totalRegistrations,
             !.version = @ + 1 ]

\* await tournament.save(); then user.tournaments.push(...)
RegisterSave(i) ==
  /\ reqs[i].pc = "saveT" /\ reqs[i].op = "register"
  /\ tournament' = saveRegistration(tournament, reqs[i].doc)
  /\ reqs' = [ reqs EXCEPT ![i].pc = "saveU" ]
  /\ UNCHANGED <<now, users, last, io>>

\* await user.save(); then the response, with the local currentTeams.
RegisterUserSave(i) ==
  /\ reqs[i].pc = "saveU" /\ reqs[i].op = "register"
  /\ users' = [ users EXCEPT ![reqs[i].user] =
                  [ @ EXCEPT !.tournaments = @ + 1, !.version = @ + 1 ] ]
  /\ last' = Response("register", reqs[i].user, "ok", "none", reqs[i].doc.currentTeams)
  /\ reqs' = [ reqs EXCEPT ![i] = IdleReq ]
  /\ UNCHANGED <<now, tournament, io>>

\* ------------------------------------------------ DELETE /:id/unregister
\* Tournament.findById
UnregisterLoad(i, u) ==
  /\ reqs[i].pc = "idle"
  /\ tournament.version < MaxVersion
  /\ IF ~tournament.exists
     THEN /\ last' = Response("unregister", u, "NotFound", "none", 0)
          /\ UNCHANGED reqs
     ELSE /\ reqs' = [ reqs EXCEPT ![i] =
                 [ IdleReq EXCEPT !.pc = "loaded", !.op = "unregister",
                                  !.user = u, !.doc = tournament ] ]
          /\ UNCHANGED last
  /\ UNCHANGED <<now, tournament, users, io>>

\* The outcome of the synchronous part of the handler on the loaded copy d.
unregisterOutcome(d, u) ==
  IF d.status = "live" \/ d.status = "completed" THEN "TournamentLocked"
  ELSE IF teamIndex(d, u) = 0 THEN "NotRegistered"
  ELSE "ok"

\* User.findById, the status check, findIndex, splice and the decrement.
UnregisterCheck(i) ==
  /\ reqs[i].pc = "loaded" /\ reqs[i].op = "unregister"
  /\ LET r == reqs[i]
         out == unregisterOutcome(r.doc, r.user)
     IN IF out # "ok"
        THEN /\ last' = Response("unregister", r.user, out, "none", 0)
             /\ reqs' = [ reqs EXCEPT ![i] = IdleReq ]
        ELSE /\ reqs' = [ reqs EXCEPT ![i] =
                    [ r EXCEPT !.pc = "saveT",
                               !.doc = [ r.doc EXCEPT
                                           !.teams = splice(@, teamIndex(r.doc, r.user)),
                                           !.currentTeams = @ - 1 ],
                               !.udoc = users[r.user] ] ]
             /\ UNCHANGED last
  /\ UNCHANGED <<now, tournament, users, io>>

\* await tournament.save(): the spliced roster is written whole, under the
\* loaded version; a changed version is a VersionError, answered 500.  Then
\* user.tournaments is reassigned to its filter.
UnregisterSave(i) ==
  /\ reqs[i].pc = "saveT" /\ reqs[i].op = "unregister"
  /\ IF tournament.version # reqs[i].doc.version
     THEN /\ last' = Response("unregister", reqs[i].user, "ServerError", "none", 0)
          /\ reqs' = [ reqs EXCEPT ![i] = IdleReq ]
          /\ UNCHANGED tournament
     ELSE /\ tournament' = [ tournament EXCEPT
                               !.teams = reqs[i].doc.teams,
                               !.currentTeams = reqs[i].doc.currentTeams,
                               !.version = @ + 1 ]
          /\ reqs' = [ reqs EXCEPT ![i].pc = "saveU",
                                   ![i].modified = (reqs[i].udoc.tournaments > 0) ]
          /\ UNCHANGED last
  /\ UNCHANGED <<now, users, io>>

\* await user.save(): the filtered list is written whole, under the loaded
\* version of the user document; then the response.
UnregisterUserSave(i) ==
  /\ reqs[i].pc = "saveU" /\ reqs[i].op = "unregister"
  /\ LET u == reqs[i].user
     IN IF ~reqs[i].modified
        THEN /\ last' = Response("unregister", u, "ok", "none", 0)
             /\ UNCHANGED users
        ELSE IF users[u].version # reqs[i].udoc.version
        THEN /\ last' = Response("unregister", u, "ServerError", "none", 0)
             /\ UNCHANGED users
        ELSE /\ last' = Response("unregister", u, "ok", "none", 0)
             /\ users' = [ users EXCEPT ![u] =
                             [ @ EXCEPT !.tournaments = 0, !.version = @ + 1 ] ]
  /\ reqs' = [ reqs EXCEPT ![i] = IdleReq ]
  /\ UNCHANGED <<now, tournament, io>>

\* ------------------------------------- POST /:id/generate-brackets
\* The request arrives and sends Tournament.findById.
GenerateCall(i, u) ==
  /\ reqs[i].pc = "idle"
  /\ tournament.version < MaxVersion
  /\ reqs' = [ reqs EXCEPT ![i] =
                [ IdleReq EXCEPT !.pc = "called", !.op = "generate", !.user = u ] ]
  /\ UNCHANGED <<now, tournament, users, last, io>>

\* The organizer check letting every caller through.
organizerCheckOpen(d, u) == IF ~d.exists THEN "NotFound" ELSE "ok"

\* The outcome of the organizer check of both bracket routes on the loaded
\* document d (nothing for a tournament that does not exist).
organizerCheck(d, u) ==
  IF ~d.exists THEN "NotFound"
  ELSE IF d.organizer # u THEN "Forbidden"
  ELSE "ok"

\* findById returns; the organizer check and generateBrackets() run on the
\* loaded copy.
GenerateLoad(i) ==
  /\ reqs[i].pc = "called" /\ reqs[i].op = "generate"
  /\ LET r == reqs[i]
         out == organizerCheck(tournament, r.user)
     IN IF out # "ok"
        THEN /\ last' = Response("generate", r.user, out, "none", 0)
             /\ reqs' = [ reqs EXCEPT ![i] = IdleReq ]
        ELSE /\ reqs' = [ reqs EXCEPT ![i] =
                    [ r EXCEPT !.pc = "saveT",
                               !.doc = [ tournament EXCEPT
                                           !.brackets = generateBrackets(tournament) ],
                               !.modified =
                                 ~( /\ generateBrackets(tournament) = <<>>
                                    /\ tournament.brackets = <<>> ) ] ]
             /\ UNCHANGED last
  /\ UNCHANGED <<now, tournament, users, io>>

\* await tournament.save(): the rounds and matches assigned to this.brackets
\* are cast to new subdocuments, each with an _id of its own (the schema
\* declares brackets and matches as arrays of subdocuments), so a non-empty
\* bracket always differs from the loaded one and only [] over [] leaves
\* the path unmodified.  A modified bracket is written whole, under the
\* loaded version, and the version is incremented.
GenerateSave(i) ==
  /\ reqs[i].pc = "saveT" /\ reqs[i].op = "generate"
  /\ LET r == reqs[i]
     IN IF ~r.modified
        THEN /\ last' = Response("generate", r.user, "ok", "none", 0)
             /\ UNCHANGED tournament
        ELSE IF tournament.version # r.doc.version
        THEN /\ last' = Response("generate", r.user, "ServerError", "none", 0)
             /\ UNCHANGED tournament
        ELSE /\ last' = Response("generate", r.user, "ok", "none", 0)
             /\ tournament' = [ tournament EXCEPT !.brackets = r.doc.brackets,
                                                  !.version = @ + 1 ]
  /\ reqs' = [ reqs EXCEPT ![i] = IdleReq ]
  /\ UNCHANGED <<now, users, io>>

\* -------------------------------------------- PUT /:id/match/:matchId
\* body('winner').notEmpty(): winner 0 stands for an empty winner.
validResult(b) == b.winner # 0

\* The request arrives; a body that fails the validators is answered 400,
\* otherwise Tournament.findById is sent.
MatchCall(i, u, b) ==
  /\ reqs[i].pc = "idle"
  /\ tournament.version < MaxVersion
  /\ IF ~validResult(b)
     THEN /\ last' = Response("match", u, "ValidationFailed", "none", 0)
          /\ UNCHANGED reqs
     ELSE /\ reqs' = [ reqs EXCEPT ![i] =
                 [ IdleReq EXCEPT !.pc = "called", !.op = "match",
                                  !.user = u, !.body = b ] ]
          /\ UNCHANGED last
  /\ UNCHANGED <<now, tournament, users, io>>

\* findMatch falling back on the first match of the bracket.
findMatchOrFirst(b, id) ==
  LET all == UNION { { <<r, m>> : m \in 1..Len(b[r].matches) } : r \in 1..Len(b) }
      hits == { p \in all : b[p[1]].matches[p[2]].matchId = id }
  IN IF all = {} THEN <<0, 0>>
     ELSE IF hits = {} THEN <<1, 1>>
     ELSE CHOOSE p \in hits :
            \A q \in hits : p[1] < q[1] \/ (p[1] = q[1] /\ p[2] <= q[2])

\* The position <<round, match>> of the first match of bracket b that
\* carries id, as the loop over the brackets finds it; <<0, 0>> for none.
findMatch(b, id) ==
  LET all == UNION { { <<r, m>> : m \in 1..Len(b[r].matches) } : r \in 1..Len(b) }
      hits == { p \in all : b[p[1]].matches[p[2]].matchId = id }
  IN IF hits = {} THEN <<0, 0>>
     ELSE CHOOSE p \in hits :
            \A q \in hits : p[1] < q[1] \/ (p[1] = q[1] /\ p[2] <= q[2])

\* The match with the result of body b recorded on it.
recordResult(match, b) ==
  [ match EXCEPT !.winner = b.winner, !.score = b.score, !.status = "completed" ]

\* withResult advancing the winner into the first match of the next round.
withResultAdvancing(b, p, b2) ==
  LET c == [ b EXCEPT ![p[1]].matches[p[2]] = recordResult(@, b2) ]
  IN IF p[1] < Len(b)
     THEN [ c EXCEPT ![p[1] + 1].matches[1].team1 = b2.winner ]
     ELSE c

\* Bracket b with the result of body b2 recorded on the match at position p.
withResult(b, p, b2) ==
  [ b EXCEPT ![p[1]].matches[p[2]] = recordResult(@, b2) ]

\* findById returns; the organizer check, the search of the match and the
\* assignments to it run on the loaded copy.
MatchLoad(i) ==
  /\ reqs[i].pc = "called" /\ reqs[i].op = "match"
  /\ LET r == reqs[i]
         p == findMatch(tournament.brackets, r.body.matchId)
         out == IF organizerCheck(tournament, r.user) # "ok"
                THEN organizerCheck(tournament, r.user)
                ELSE IF p = <<0, 0>> THEN "NotFound" ELSE "ok"
     IN IF out # "ok"
        THEN /\ last' = Response("match", r.user, out, "none", 0)
             /\ reqs' = [ reqs EXCEPT ![i] = IdleReq ]
        ELSE /\ reqs' = [ reqs EXCEPT ![i] =
                    [ r EXCEPT !.pc = "saveT",
                               !.doc = [ tournament EXCEPT
                                           !.brackets = withResult(@, p, r.body) ] ] ]
             /\ UNCHANGED last
  /\ UNCHANGED <<now, tournament, users, io>>

\* await tournament.save(): the fields of the one match are written by their
\* position in the array, under the loaded version (completedAt always
\* differs, so there is always something to write); the version stays.
MatchSave(i) ==
  /\ reqs[i].pc = "saveT" /\ reqs[i].op = "match"
  /\ LET r == reqs[i]
         p == findMatch(r.doc.brackets, r.body.matchId)
     IN IF tournament.version # r.doc.version
        THEN /\ last' = Response("match", r.user, "ServerError", "none", 0)
             /\ UNCHANGED tournament
        ELSE /\ last' = Response("match", r.user, "ok", "none", 0)
             /\ tournament' = [ tournament EXCEPT
                                  !.brackets = withResult(@, p, r.body) ]
  /\ reqs' = [ reqs EXCEPT ![i] = IdleReq ]
  /\ UNCHANGED <<now, users, io>>

\* ------------------------------ POST /api/chat/tournament/:tournamentId
\* body('message').trim().isLength({ min: 1, max: 500 })
validMessage(text) == text # ""

\* The request arrives; an empty message is answered 400, otherwise
\* Tournament.findById runs.
PostLoad(i, u, text) ==
  /\ reqs[i].pc = "idle"
  /\ tournament.version < MaxVersion
  /\ IF ~validMessage(text)
     THEN /\ last' = Response("post", u, "ValidationFailed", "none", 0)
          /\ UNCHANGED reqs
     ELSE IF ~tournament.exists
     THEN /\ last' = Response("post", u, "NotFound", "none", 0)
          /\ UNCHANGED reqs
     ELSE /\ reqs' = [ reqs EXCEPT ![i] =
                 [ IdleReq EXCEPT !.pc = "loaded", !.op = "post", !.user = u,
                                  !.doc = tournament,
                                  !.body = [ NoBody EXCEPT !.message = text ] ] ]
          /\ UNCHANGED last
  /\ UNCHANGED <<now, tournament, users, io>>

\* The membership check letting every user through.
mayChatOpen(d, u) == TRUE

\* isRegistered || isOrganizer on the loaded copy d.
mayChat(d, u) == alreadyRegistered(d, u) \/ d.organizer = u

\* The _id a push gives the message of the request in slot i: an ObjectId,
\* unlike every other one.  (The successive posts of a slot load growing
\* versions, so slot and loaded version tell the messages apart.)
messageId(i, d) == d.version * MaxInFlight + i

\* chatMessage of the handler, with the _id of the subdocument.
chatMessage(id, u, text) == [ id |-> id, userId |-> u, message |-> text ]

\* User.findById, the membership check and chat.push(chatMessage).
PostCheck(i) ==
  /\ reqs[i].pc = "loaded" /\ reqs[i].op = "post"
  /\ LET r == reqs[i]
     IN IF ~mayChat(r.doc, r.user)
        THEN /\ last' = Response("post", r.user, "Forbidden", "none", 0)
             /\ reqs' = [ reqs EXCEPT ![i] = IdleReq ]
        ELSE /\ reqs' = [ reqs EXCEPT ![i] =
                    [ r EXCEPT !.pc = "saveT",
                               !.doc = [ r.doc EXCEPT !.chat =
                                           Append(@, chatMessage(messageId(i, r.doc), r.user,
                                                                 r.body.message)) ] ] ]
             /\ UNCHANGED last
  /\ UNCHANGED <<now, tournament, users, io>>

\* The save writing the whole log of the local copy.
PostSaveWhole(i) ==
  /\ reqs[i].pc = "saveT" /\ reqs[i].op = "post"
  /\ tournament' = [ tournament EXCEPT !.chat = reqs[i].doc.chat,
                                       !.version = @ + 1 ]
  /\ last' = Response("post", reqs[i].user, "ok", "none", 0)
  /\ reqs' = [ reqs EXCEPT ![i] = IdleReq ]
  /\ UNCHANGED <<now, users, io>>

\* await tournament.save(): the pushed message is appended to the stored
\* log and the version is incremented; then the response.
PostSave(i) ==
  /\ reqs[i].pc = "saveT" /\ reqs[i].op = "post"
  /\ tournament' = [ tournament EXCEPT
                       !.chat = Append(@, reqs[i].doc.chat[Len(reqs[i].doc.chat)]),
                       !.version = @ + 1 ]
  /\ last' = Response("post", reqs[i].user, "ok", "none", 0)
  /\ reqs' = [ reqs EXCEPT ![i] = IdleReq ]
  /\ UNCHANGED <<now, users, io>>

\* ------------------------------- GET /api/chat/tournament/:tournamentId
\* Array.prototype.slice(start, end) on a sequence: a negative index counts
\* from the end, indices are clamped to the length, elements are numbered
\* from 0.
sliceIndex(n, len) ==
  IF n < 0 THEN (IF len + n > 0 THEN len + n ELSE 0)
  ELSE IF n < len THEN n ELSE len

slice(s, start, end) ==
  SubSeq(s, sliceIndex(start, Len(s)) + 1, sliceIndex(end, Len(s)))

\* Array.prototype.reverse()
reverse(s) == [ k \in 1..Len(s) |-> s[Len(s) + 1 - k] ]

\* slice(startIndex, endIndex) without the reverse.
messagesPageOldestFirst(chat, page, limit) ==
  LET totalMessages == Len(chat)
      startIndex == IF totalMessages - page * limit > 0
                    THEN totalMessages - page * limit ELSE 0
      endIndex == totalMessages - (page - 1) * limit
  IN slice(chat, startIndex, endIndex)

\* The messages of a page: slice(startIndex, endIndex).reverse().
messagesPage(chat, page, limit) ==
  LET totalMessages == Len(chat)
      startIndex == IF totalMessages - page * limit > 0
                    THEN totalMessages - page * limit ELSE 0
      endIndex == totalMessages - (page - 1) * limit
  IN reverse(slice(chat, startIndex, endIndex))

\* pagination.hasMore: startIndex > 0.
hasMore(chat, page, limit) == Len(chat) - page * limit > 0

\* The request: findById, then the page of the loaded log.
GetMessages(page, limit) ==
  /\ last' = IF ~tournament.exists
             THEN RankResponse("messages", 0, "none", page, limit, "NotFound", 0, <<>>)
             ELSE [ RankResponse("messages", 0, "none", page, limit, "ok", 0,
                                 messagesPage(tournament.chat, page, limit))
                      EXCEPT !.hasMore = hasMore(tournament.chat, page, limit) ]
  /\ UNCHANGED <<now, tournament, users, reqs, io>>

\* -------- DELETE /api/chat/tournament/:tournamentId/message/:messageId
\* findIndex(msg => msg._id.toString() === messageId): 0 for -1.
messageIndex(chat, id) ==
  IF \E k \in 1..Len(chat) : chat[k].id = id
  THEN CHOOSE k \in 1..Len(chat) :
         chat[k].id = id /\ \A j \in 1..(k - 1) : chat[j].id # id
  ELSE 0

\* isAuthor || isOrganizer
mayDelete(d, k, u) == d.chat[k].userId = u \/ d.organizer = u

\* The request arrives, findById runs, and the synchronous part up to
\* chat.splice(messageIndex, 1).
DeleteLoad(i, u, id) ==
  /\ reqs[i].pc = "idle"
  /\ tournament.version < MaxVersion
  /\ LET k == messageIndex(tournament.chat, id)
     IN IF ~tournament.exists \/ k = 0
        THEN /\ last' = Response("delete", u, "NotFound", "none", 0)
             /\ UNCHANGED reqs
        ELSE IF ~mayDelete(tournament, k, u)
        THEN /\ last' = Response("delete", u, "Forbidden", "none", 0)
             /\ UNCHANGED reqs
        ELSE /\ reqs' = [ reqs EXCEPT ![i] =
                    [ IdleReq EXCEPT !.pc = "saveT", !.op = "delete", !.user = u,
                                     !.doc = [ tournament EXCEPT
                                                 !.chat = splice(@, k) ] ] ]
             /\ UNCHANGED last
  /\ UNCHANGED <<now, tournament, users, io>>

\* await tournament.save(): the spliced log is written whole if the stored
\* version is still the loaded one, otherwise the save throws.
DeleteSave(i) ==
  /\ reqs[i].pc = "saveT" /\ reqs[i].op = "delete"
  /\ IF tournament.version # reqs[i].doc.version
     THEN /\ last' = Response("delete", reqs[i].user, "ServerError", "none", 0)
          /\ UNCHANGED tournament
     ELSE /\ tournament' = [ tournament EXCEPT !.chat = reqs[i].doc.chat,
                                               !.version = @ + 1 ]
          /\ last' = Response("delete", reqs[i].user, "ok", "none", 0)
  /\ reqs' = [ reqs EXCEPT ![i] = IdleReq ]
  /\ UNCHANGED <<now, users, io>>

\* ------------------------------------------------ the Socket.IO server
\* `tournament-${tournamentId}`, every id giving the same name.
roomNameShared(t) == << "tournament-" >>

\* `tournament-${tournamentId}`
roomName(t) == << "tournament-" >> \o Digits(t)

\* io.on('connection'): a new socket, in no tournament room, sent nothing
\* yet.
Connect(c) ==
  /\ ~io.connected[c]
  /\ io' = [ io EXCEPT !.connected[c] = TRUE, !.joined[c] = {},
                       !.rooms[c] = {}, !.delivered[c] = <<>> ]
  /\ UNCHANGED <<now, tournament, users, reqs, last>>

\* socket.on('join-tournament'): socket.join(room), a set insertion.
JoinTournament(c, t) ==
  /\ io.connected[c]
  /\ io' = [ io EXCEPT !.joined[c] = @ \cup { t },
                       !.rooms[c] = @ \cup { roomName(t) } ]
  /\ UNCHANGED <<now, tournament, users, reqs, last>>

\* socket.on('disconnect'): Socket.IO takes the socket out of its rooms.
Disconnect(c) ==
  /\ io.connected[c]
  /\ io' = [ io EXCEPT !.connected[c] = FALSE, !.joined[c] = {},
                       !.rooms[c] = {} ]
  /\ UNCHANGED <<now, tournament, users, reqs, last>>

\* io.to(room).emit(kind, ...): the event goes to the open sockets that are
\* in the room, and to them only.
emitTo(room, e) ==
  [ io EXCEPT !.delivered = [ c \in Conns |->
                               IF io.connected[c] /\ room \in io.rooms[c]
                               THEN Append(io.delivered[c], e)
                               ELSE io.delivered[c] ],
              !.emitted = Append(@, e) ]

\* socket.on('chat-message'): the data of the client (tournamentId, user,
\* message) is emitted to the room of data.tournamentId.
ChatMessage(c, t, u, text) ==
  /\ io.connected[c]
  /\ Len(io.emitted) < MaxEvents
  /\ io' = emitTo(roomName(t),
                  [ kind |-> "chat-message", tournamentId |-> t,
                    user |-> u, message |-> text ])
  /\ UNCHANGED <<now, tournament, users, reqs, last>>

\* socket.on('tournament-update'): the data of the client is emitted as
\* it came to the room of data.tournamentId.
TournamentUpdate(c, t) ==
  /\ io.connected[c]
  /\ Len(io.emitted) < MaxEvents
  /\ io' = emitTo(roomName(t),
                  [ kind |-> "tournament-update", tournamentId |-> t,
                    user |-> 0, message |-> "" ])
  /\ UNCHANGED <<now, tournament, users, reqs, last>>

\* -------------------------------------------------------- specifications
\* Users are interchangeable until one of them creates the tournament: the
\* organizer is user 1.
Organizers == {1}

\* The schedules of the registration runs.  Both open the registration at 1;
\* the first closes it at 1, starts at 2 and ends at 2 (completed from 3 on),
\* the second closes it at 2, starts at 3 and has no end.
Schedules ==
  { [ rs |-> 1, re |-> 1, ts |-> 2, he |-> TRUE, te |-> 2 ],
    [ rs |-> 1, re |-> 2, ts |-> 3, he |-> FALSE, te |-> 0 ] }

Create ==
  \E u \in Organizers, s \in Schedules, cap \in Capacities :
     CreateTournament(u, s.rs, s.re, s.ts, s.he, s.te, cap)

\* createTournament validates the dates one by one and never their order:
\* every schedule over the instants is accepted.
CreateAny ==
  \E u \in Organizers, rs \in Instants, re \in Instants, ts \in Instants,
     he \in BOOLEAN, te \in Instants, cap \in Capacities :
       CreateTournament(u, rs, re, ts, he, te, cap)

Next ==
  \/ Tick
  \/ Create
  \/ \E i \in Slots : GetLoad(i)
  \/ \E i \in Slots : GetSave(i)
  \/ \E i \in Slots, u \in Users : RegisterLoad(i, u)
  \/ \E i \in Slots : RegisterCheck(i)
  \/ \E i \in Slots : RegisterSave(i)
  \/ \E i \in Slots : RegisterUserSave(i)
  \/ \E i \in Slots, u \in Users : UnregisterLoad(i, u)
  \/ \E i \in Slots : UnregisterCheck(i)
  \/ \E i \in Slots : UnregisterSave(i)
  \/ \E i \in Slots : UnregisterUserSave(i)

Spec == Init /\ [][Next]_vars

\* The lifecycle alone: creation with any schedule, the clock, and the reads
\* one at a time (updateStatus runs on the loaded copy, whose dates no
\* request changes).
NextStatus ==
  \/ Tick
  \/ CreateAny
  \/ GetLoad(1)
  \/ GetSave(1)

SpecStatus == Init /\ [][NextStatus]_vars

\* The reads of the lifecycle: creation with any schedule, the clock,
\* getTournament one at a time and the listing with every status filter.
NextList ==
  \/ Tick
  \/ CreateAny
  \/ GetLoad(1)
  \/ GetSave(1)
  \/ \E f \in StatusFilters : ListTournaments(f)

SpecList == Init /\ [][NextList]_vars

\* The out-of-band cancellation of section 4.1: no route sets the status,
\* an operator writes 'cancelled' (a value of the schema's enum) to the store.
Cancel ==
  /\ tournament.exists
  /\ tournament.status # "cancelled"
  /\ tournament' = [ tournament EXCEPT !.status = "cancelled" ]
  /\ UNCHANGED <<now, users, reqs, last, io>>

NextCancel ==
  \/ NextStatus
  \/ Cancel

SpecCancel == Init /\ [][NextCancel]_vars

\* POST /api/tournaments with a body that carries participants.teams:
\* tournamentData spreads req.body, so the document is created with that
\* roster (and the currentTeams of the body, here the size of the roster).
CreateTournamentWith(u, rs, re, ts, he, te, cap, teams) ==
  /\ ~tournament.exists
  /\ LET d == [ NoTournament EXCEPT
                  !.exists = TRUE,
                  !.registrationStart = rs, !.registrationEnd = re,
                  !.tournamentStart = ts, !.hasEnd = he,
                  !.tournamentEnd = IF he THEN te ELSE 0,
                  !.maxTeams = cap, !.organizer = u,
                  !.teams = teams, !.currentTeams = Len(teams),
                  !.totalRegistrations = Len(teams) ]
     IN tournament' = [ d EXCEPT !.status = updateStatus(d, now) ]
  /\ last' = Response("create", u, "ok", tournament'.status, 0)
  /\ UNCHANGED <<now, users, reqs, io>>

\* The rosters of the bracket runs: users 2 and 3 confirmed (one round of
\* one match, the organizer not in the roster), and users 1, 2 and 3
\* confirmed (two rounds).
confirmedTeam(u) == [ teamId |-> u, userId |-> u, status |-> "confirmed" ]

SeedRosters ==
  { << confirmedTeam(2), confirmedTeam(3) >>,
    << confirmedTeam(1), confirmedTeam(2), confirmedTeam(3) >> }

\* The schedule of the bracket runs: the tournament is created as draft at
\* 0, registration at 1, live at 2, completed at 3.
CreateSeeded ==
  \E u \in Organizers, teams \in SeedRosters :
     CreateTournamentWith(u, 1, 1, 2, TRUE, 2, Len(teams), teams)

\* The clock until the tournament is created: no handler of the bracket
\* runs reads it afterwards.
TickBefore == ~tournament.exists /\ Tick

\* The match ids asked for: the first match of round 1 and of round 2, and
\* one that no bracket of the runs carries.
MatchIds == { matchId(1, 1), matchId(2, 1), matchId(3, 1) }

\* The bodies of the result recordings: winner 0 is the empty winner.
Bodies ==
  { [ NoBody EXCEPT !.matchId = id, !.winner = w, !.score = << 1, 0 >> ] :
      id \in MatchIds, w \in { 0, 2 } }

\* The callers of the bracket routes: the organizer and another user.
Callers == { 1, 2 }

ChatTexts == { "", "gg" }

\* The bracket service: creation with a confirmed roster (at time 0, as a
\* draft), bracket generation, result recording and unregistration,
\* interleaved.
NextBracket ==
  \/ CreateSeeded
  \/ \E i \in Slots, u \in Callers : GenerateCall(i, u)
  \/ \E i \in Slots : GenerateLoad(i)
  \/ \E i \in Slots : GenerateSave(i)
  \/ \E i \in Slots, u \in Callers, b \in Bodies : MatchCall(i, u, b)
  \/ \E i \in Slots : MatchLoad(i)
  \/ \E i \in Slots : MatchSave(i)
  \/ \E i \in Slots, u \in Users : UnregisterLoad(i, u)
  \/ \E i \in Slots : UnregisterCheck(i)
  \/ \E i \in Slots : UnregisterSave(i)
  \/ \E i \in Slots : UnregisterUserSave(i)

SpecBracket == Init /\ [][NextBracket]_vars

\* The unregistration next to the other writers of the document: creation
\* with a confirmed roster at any time, bracket generation, chat posts and
\* unregistration, interleaved.
NextUnregister ==
  \/ TickBefore
  \/ CreateSeeded
  \/ \E i \in Slots, u \in Callers : GenerateCall(i, u)
  \/ \E i \in Slots : GenerateLoad(i)
  \/ \E i \in Slots : GenerateSave(i)
  \/ \E i \in Slots, u \in Users : UnregisterLoad(i, u)
  \/ \E i \in Slots : UnregisterCheck(i)
  \/ \E i \in Slots : UnregisterSave(i)
  \/ \E i \in Slots : UnregisterUserSave(i)
  \/ \E i \in Slots, u \in Users, text \in ChatTexts : PostLoad(i, u, text)
  \/ \E i \in Slots : PostCheck(i)
  \/ \E i \in Slots : PostSave(i)

SpecUnregister == Init /\ [][NextUnregister]_vars

\* The bracket generator alone, on every roster of up to MaxRoster teams.
\* The team of roster position k has team id k; a stored roster holds teams
\* of status registered (POST /:id/register) and confirmed.
TeamStatuses == { "registered", "confirmed" }

RosterOf(st) ==
  [ k \in DOMAIN st |-> [ teamId |-> k, userId |-> k, status |-> st[k] ] ]

InitGenerate ==
  /\ now = 0
  /\ \E n \in 0..MaxRoster : \E st \in [ 1..n -> TeamStatuses ] :
       tournament = [ NoTournament EXCEPT
                        !.exists = TRUE, !.registrationStart = 1,
                        !.registrationEnd = 1, !.tournamentStart = 2,
                        !.maxTeams = MaxRoster, !.organizer = 1,
                        !.teams = RosterOf(st), !.currentTeams = n,
                        !.totalRegistrations = n ]
  /\ users = [ u \in Users |-> NewUser ]
  /\ reqs = [ i \in Slots |-> IdleReq ]
  /\ last = NoResponse
  /\ io = NoIo

\* tournament.generateBrackets() on the document.
GenerateBracketsCall ==
  /\ tournament' = [ tournament EXCEPT !.brackets = generateBrackets(tournament) ]
  /\ last' = Response("generate", tournament.organizer, "ok", "none", 0)
  /\ UNCHANGED <<now, users, reqs, io>>

NextGenerate == GenerateBracketsCall

SpecGenerate == InitGenerate /\ [][NextGenerate]_vars

\* ------------------------------------------------- the ranking runs
Scores == 0..MaxScore

\* The gameStats of a user whose score for game GameList[k] is sc[k], -1
\* standing for no entry: at most one entry per game, in the order of the
\* list, no cached rank yet.
statList(sc) ==
  SelectSeq([ k \in 1..Len(GameList) |->
                [ game |-> GameList[k], score |-> sc[k], rank |-> 0,
                  wins |-> 0, losses |-> 0 ] ],
            LAMBDA e : e.score >= 0)

\* The user document of active flag a, totalScore t and game scores sc.
profile(a, t, sc) ==
  [ NewUser EXCEPT !.isActive = a, !.totalScore = t, !.gameStats = statList(sc) ]

\* A number per profile <<a, t, sc>>, to take the collections up to a
\* renaming of the users (user ids are opaque to the ranking).
profileKey(x) ==
  (IF x[1] THEN 1 ELSE 0)
    + 2 * (x[2] + (MaxScore + 1)
                    * ((x[3][1] + 1) + (MaxScore + 2) * (x[3][2] + 1)))

\* The collections over the user ids ids, the profiles of PS in the order
\* of their numbers.
Collections(ids, PS) ==
  { f \in [ ids -> PS ] :
      \A u \in ids, v \in ids : u < v => profileKey(f[u]) <= profileKey(f[v]) }

\* A user collection of NumUsers users with scores in every scope.
InitBoard ==
  /\ now = 0
  /\ tournament = NoTournament
  /\ \E f \in Collections(Users, BOOLEAN \X Scores \X [ 1..Len(GameList) -> -1..MaxScore ]) :
       users = [ u \in Users |-> profile(f[u][1], f[u][2], f[u][3]) ]
  /\ reqs = [ i \in Slots |-> IdleReq ]
  /\ last = NoResponse
  /\ io = NoIo

Pages == 1..MaxPage
Limits == 1..MaxLimit

\* No query was answered yet.  (The queries write nothing: a run asks one.)
Unanswered == last = NoResponse

\* The leaderboard queries and getUserRank (of the users and of an id that
\* no user has) on a collection nothing writes.
NextLeaderboard ==
  \/ \E g \in Scopes, page \in Pages, limit \in Limits :
       Unanswered /\ GlobalLeaderboard(g, page, limit)
  \/ \E g \in Games, page \in Pages, limit \in Limits :
       Unanswered /\ GameLeaderboard(g, page, limit)
  \/ \E u \in Users \cup { 0 }, g \in Scopes :
       Unanswered /\ GetUserRank(u, g)

SpecLeaderboard == InitBoard /\ [][NextLeaderboard]_vars

\* A user collection of NumRanked users with a totalScore and no game
\* statistics: the overall scope holds up to NumRanked rows.
Ranked == 1..NumRanked

InitNeighbors ==
  /\ now = 0
  /\ tournament = NoTournament
  /\ \E f \in Collections(Ranked, BOOLEAN \X Scores \X { [ k \in 1..Len(GameList) |-> -1 ] }) :
       users = [ u \in Ranked |-> profile(f[u][1], f[u][2], f[u][3]) ]
  /\ reqs = [ i \in Slots |-> IdleReq ]
  /\ last = NoResponse
  /\ io = NoIo

NextNeighbors == \E u \in Ranked : Unanswered /\ GetUserRank(u, "overall")

SpecNeighbors == InitNeighbors /\ [][NextNeighbors]_vars

\* The batch re-rank, one run at a time, on a collection nothing else
\* writes.
NextRerank == RerankCall(1) \/ RerankFind(1) \/ RerankWrite(1)

SpecRerank == InitBoard /\ [][NextRerank]_vars

\* The bodies of PUT /api/users/stats.
StatBodies == [ game : Games, result : { "win", "loss" }, score : Scores ]

\* The user who reports results.
Players == { 1 }

\* The batch re-rank next to the score updates of the users, on a
\* collection of users without statistics.
NextRerankStats ==
  \/ \E u \in Players, b \in StatBodies : StatsLoad(1, u, b)
  \/ StatsSave(1)
  \/ RerankCall(2)
  \/ RerankFind(2)
  \/ RerankWrite(2)

SpecRerankStats == Init /\ [][NextRerankStats]_vars

\* A user collection of NumUsers users with a totalScore and at most an
\* entry for the first game.
InitReads ==
  /\ now = 0
  /\ tournament = NoTournament
  /\ \E f \in Collections(Users, BOOLEAN \X Scores
                                   \X { sc \in [ 1..Len(GameList) -> -1..MaxScore ] :
                                          \A k \in 2..Len(GameList) : sc[k] = -1 }) :
       users = [ u \in Users |-> profile(f[u][1], f[u][2], f[u][3]) ]
  /\ reqs = [ i \in Slots |-> IdleReq ]
  /\ last = NoResponse
  /\ io = NoIo

\* No read was answered yet.
ReadsOpen == last.op \in { "none", "rerank" }

\* A batch re-rank, and one read of the rankings before it, between two of
\* its store calls or after it.
NextRerankReads ==
  \/ ReadsOpen /\ RerankCall(1)
  \/ ReadsOpen /\ RerankFind(1)
  \/ ReadsOpen /\ RerankWrite(1)
  \/ \E g \in Scopes, page \in Pages, limit \in Limits :
       ReadsOpen /\ GlobalLeaderboard(g, page, limit)
  \/ \E g \in Games, page \in Pages, limit \in Limits :
       ReadsOpen /\ GameLeaderboard(g, page, limit)
  \/ \E u \in Users, g \in Scopes : ReadsOpen /\ GetUserRank(u, g)
  \/ \E g \in Scopes : ReadsOpen /\ Top3(g)
  \/ \E matching \in SUBSET Users, limit \in Limits :
       ReadsOpen /\ SearchUsers(matching, limit)

SpecRerankReads == InitReads /\ [][NextRerankReads]_vars

\* The podium next to the score updates of the users, on a collection of
\* users without statistics.
NextPodium ==
  \/ \E u \in Players, b \in StatBodies : StatsLoad(1, u, b)
  \/ StatsSave(1)
  \/ \E g \in Scopes : Top3(g)

SpecPodium == Init /\ [][NextPodium]_vars

\* A tournament created with an empty roster, open for registration from 0
\* on, with room for every user.
CreateEmpty ==
  \E u \in Organizers : CreateTournament(u, 0, MaxTime, MaxTime, FALSE, 0, NumUsers)

\* The core on a tournament created with an empty roster: registrations
\* and unregistrations in slot 1, bracket generations and result recordings
\* of the organizer in slot 2.  The save of a result recording is left out:
\* no recording gets as far as its save (C35_NothingConfirmed), so it is
\* never enabled here.
NextCore ==
  \/ CreateEmpty
  \/ \E u \in Users : RegisterLoad(1, u)
  \/ RegisterCheck(1)
  \/ RegisterSave(1)
  \/ RegisterUserSave(1)
  \/ \E u \in Users : UnregisterLoad(1, u)
  \/ UnregisterCheck(1)
  \/ UnregisterSave(1)
  \/ UnregisterUserSave(1)
  \/ \E u \in Organizers : GenerateCall(2, u)
  \/ GenerateLoad(2)
  \/ GenerateSave(2)
  \/ \E u \in Organizers, b \in Bodies : MatchCall(2, u, b)
  \/ MatchLoad(2)

SpecCore == Init /\ [][NextCore]_vars

\* The rosters of the chat runs: user 2, or users 2 and 3; user 1 is the
\* organizer and no player.
ChatRosters ==
  { << confirmedTeam(2) >>, << confirmedTeam(2), confirmedTeam(3) >> }

CreateForChat ==
  \E u \in Organizers, teams \in ChatRosters :
     CreateTournamentWith(u, 1, 1, 2, TRUE, 2, MinTeams, teams)

\* The message ids asked to be deleted.
DeleteIds == 1..3

\* The chat service: creation with a roster (at time 0, as a draft), chat
\* posts, message deletions and unregistration, interleaved.
NextChat ==
  \/ CreateForChat
  \/ \E i \in Slots, u \in Users, text \in ChatTexts : PostLoad(i, u, text)
  \/ \E i \in Slots : PostCheck(i)
  \/ \E i \in Slots : PostSave(i)
  \/ \E i \in Slots, u \in Users, id \in DeleteIds : DeleteLoad(i, u, id)
  \/ \E i \in Slots : DeleteSave(i)
  \/ \E i \in Slots, u \in Users : UnregisterLoad(i, u)
  \/ \E i \in Slots : UnregisterCheck(i)
  \/ \E i \in Slots : UnregisterSave(i)
  \/ \E i \in Slots : UnregisterUserSave(i)

SpecChat == Init /\ [][NextChat]_vars

\* The tournament of the mutation runs: created at time 0 with the
\* registration open from 0 to MaxTime, room for every user, and users 2 and
\* 3 confirmed.
CreateOpen ==
  \E u \in Organizers :
     CreateTournamentWith(u, 0, MaxTime, MaxTime, FALSE, 0, NumUsers,
                          << confirmedTeam(2), confirmedTeam(3) >>)

\* The result recorded in the mutation runs.
ResultBody ==
  [ NoBody EXCEPT !.matchId = matchId(1, 1), !.winner = 2, !.score = << 1, 0 >> ]

\* A chat post next to each mutation of the tournament: a post in either
\* slot, and in slot 2 a registration, an unregistration, a bracket
\* generation, a result recording or a message deletion.
NextChatMutations ==
  \/ CreateOpen
  \/ \E i \in Slots, u \in Users : PostLoad(i, u, "gg")
  \/ \E i \in Slots : PostCheck(i)
  \/ \E i \in Slots : PostSave(i)
  \/ \E u \in Users : RegisterLoad(2, u)
  \/ RegisterCheck(2)
  \/ RegisterSave(2)
  \/ RegisterUserSave(2)
  \/ \E u \in Users : UnregisterLoad(2, u)
  \/ UnregisterCheck(2)
  \/ UnregisterSave(2)
  \/ UnregisterUserSave(2)
  \/ \E u \in Organizers : GenerateCall(2, u)
  \/ GenerateLoad(2)
  \/ GenerateSave(2)
  \/ \E u \in Organizers : MatchCall(2, u, ResultBody)
  \/ MatchLoad(2)
  \/ MatchSave(2)
  \/ \E u \in Users, id \in DeleteIds : DeleteLoad(2, u, id)
  \/ DeleteSave(2)

SpecChatMutations == Init /\ [][NextChatMutations]_vars

\* The reads of the log next to its writers: chat posts, message deletions
\* and getChatMessages, interleaved.
NextChatRead ==
  \/ CreateForChat
  \/ \E i \in Slots, u \in Users, text \in ChatTexts : PostLoad(i, u, text)
  \/ \E i \in Slots : PostCheck(i)
  \/ \E i \in Slots : PostSave(i)
  \/ \E i \in Slots, u \in Users, id \in DeleteIds : DeleteLoad(i, u, id)
  \/ \E i \in Slots : DeleteSave(i)
  \/ \E page \in Pages, limit \in Limits : GetMessages(page, limit)

SpecChatRead == Init /\ [][NextChatRead]_vars

\* The pages asked for in the paging runs: one more than the leaderboard
\* pages, to reach a page past the last of a log of three messages.
ChatPages == 1..(MaxPage + 1)

\* The chat routes of the players with the paged read of every page.
NextChatPages ==
  \/ CreateForChat
  \/ \E i \in Slots, u \in Users : PostLoad(i, u, "gg")
  \/ \E i \in Slots : PostCheck(i)
  \/ \E i \in Slots : PostSave(i)
  \/ \E page \in ChatPages, limit \in Limits : GetMessages(page, limit)

SpecChatPages == Init /\ [][NextChatPages]_vars

\* The Socket.IO server alone: connections come and go, join rooms and
\* send the two events the server relays.
EventTexts == { "gg", "hf" }

NextBroadcast ==
  \/ \E c \in Conns : Connect(c)
  \/ \E c \in Conns, t \in RoomIds : JoinTournament(c, t)
  \/ \E c \in Conns : Disconnect(c)
  \/ \E c \in Conns, t \in RoomIds, u \in Users, text \in EventTexts :
       ChatMessage(c, t, u, text)
  \/ \E c \in Conns, t \in RoomIds : TournamentUpdate(c, t)

SpecBroadcast == Init /\ [][NextBroadcast]_vars

\* The chat of tournament 1 on both paths: the posts and unregistrations of
\* the HTTP routes, one request at a time, next to a connection that joins
\* the room of the tournament and sends the events the server relays.
NextChatBroadcast ==
  \/ CreateForChat
  \/ \E u \in Users, text \in ChatTexts : PostLoad(1, u, text)
  \/ PostCheck(1)
  \/ PostSave(1)
  \/ \E u \in Users : UnregisterLoad(1, u)
  \/ UnregisterCheck(1)
  \/ UnregisterSave(1)
  \/ UnregisterUserSave(1)
  \/ Connect(1)
  \/ JoinTournament(1, 1)
  \/ Disconnect(1)
  \/ \E u \in Users : ChatMessage(1, 1, u, "gg")
  \/ TournamentUpdate(1, 1)

SpecChatBroadcast == Init /\ [][NextChatBroadcast]_vars

\* A request that was received is handled to its response: every await of
\* a handler returns.  Nothing makes a client connect or send an event.
HandlersRun ==
  /\ WF_vars(PostCheck(1)) /\ WF_vars(PostSave(1))
  /\ WF_vars(UnregisterCheck(1)) /\ WF_vars(UnregisterSave(1))
  /\ WF_vars(UnregisterUserSave(1))

SpecChatBroadcastFair == SpecChatBroadcast /\ HandlersRun

\* ================================================================ claims

\* C1: in every reachable state of the tournament,
\* 0 <= currentTeams <= maxTeams and currentTeams = len(roster).
C1_CounterMatchesRoster ==
  tournament.exists =>
    /\ 0 <= tournament.currentTeams
    /\ tournament.currentTeams <= tournament.maxTeams
    /\ tournament.currentTeams = Len(tournament.teams)

\* C3: no user id appears in the players of more than one roster entry.
C3_NoDuplicatePlayer ==
  \A j \in 1..Len(tournament.teams), k \in 1..Len(tournament.teams) :
    j # k => tournament.teams[j].userId # tournament.teams[k].userId

\* C2: registrations of distinct users never push the roster past maxTeams:
\* of N concurrent registrations against maxTeams = N-1 at most N-1 get a
\* place.
C2_RosterWithinCapacity ==
  (tournament.exists /\ C3_NoDuplicatePlayer) =>
    Len(tournament.teams) <= tournament.maxTeams

\* The schedule of document d is ordered.
Ordered(d) ==
  /\ d.registrationStart <= d.registrationEnd
  /\ d.registrationEnd <= d.tournamentStart
  /\ d.hasEnd => d.tournamentStart <= d.tournamentEnd

\* The status table of section 4.1 as the claim states it: s is the status
\* of schedule d at time t.
StatusTable(d, t, s) ==
  /\ t < d.registrationStart => s = "draft"
  /\ (d.registrationStart <= t /\ t <= d.registrationEnd) => s = "registration"
  /\ (d.registrationEnd < t /\ t < d.tournamentStart) => s = "upcoming"
  /\ (d.tournamentStart <= t /\ (~d.hasEnd \/ t <= d.tournamentEnd)) => s = "live"
  /\ (d.hasEnd /\ t > d.tournamentEnd) => s = "completed"

\* The table with the rows taken in order: the window row wins over the
\* live row at t = registrationEnd = tournamentStart.
StatusTableInOrder(d, t, s) ==
  /\ t < d.registrationStart => s = "draft"
  /\ (d.registrationStart <= t /\ t <= d.registrationEnd) => s = "registration"
  /\ (d.registrationEnd < t /\ t < d.tournamentStart) => s = "upcoming"
  /\ (d.tournamentStart <= t /\ d.registrationEnd < t
        /\ (~d.hasEnd \/ t <= d.tournamentEnd)) => s = "live"
  /\ (d.hasEnd /\ t > d.tournamentEnd) => s = "completed"
  /\ s \in {"draft", "registration", "upcoming", "live", "completed"}

\* A step in which updateStatus is evaluated on an ordered schedule: by
\* createTournament, or by getTournament in slot i.
CreatedNow == ~tournament.exists /\ tournament'.exists /\ Ordered(tournament')
ReadNow(i) ==
  /\ reqs[i].pc = "idle" /\ reqs'[i].pc = "saveT" /\ reqs'[i].op = "get"
  /\ Ordered(reqs'[i].doc)

C5_CancelledIsSticky ==
  [][ tournament.status = "cancelled" => tournament'.status = "cancelled" ]_vars

\* Slot i answers (or goes on to its save) in this step: the synchronous
\* part of the handler of operation op has run on its loaded copy.
Decides(i, op) ==
  /\ reqs[i].op = op /\ reqs[i].pc = "loaded"
  /\ reqs'[i].pc # "loaded"

\* Slot i is answered with outcome out in this step.
Answered(i, out) ==
  /\ reqs'[i].pc = "idle"
  /\ last'.user = reqs[i].user /\ last'.op = reqs[i].op
  /\ last'.result = out

\* The store is as it was.
StoreUnchanged == tournament' = tournament /\ users' = users

\* C6: for a caller not in the roster and currentTeams < maxTeams, register
\* goes through if and only if registrationStart <= now <= registrationEnd,
\* and fails with RegistrationClosed otherwise.
C6_GatedByDerivedStatus ==
  [][ \A i \in Slots :
        ( /\ Decides(i, "register")
          /\ ~alreadyRegistered(reqs[i].doc, reqs[i].user)
          /\ reqs[i].doc.currentTeams < reqs[i].doc.maxTeams )
        => IF /\ reqs[i].doc.registrationStart <= now
              /\ now <= reqs[i].doc.registrationEnd
           THEN reqs'[i].pc = "saveT"
           ELSE Answered(i, "RegistrationClosed")
    ]_vars

\* C7: unregister (of a registered caller) fails with TournamentLocked and
\* leaves the store as it was whenever the status derived from the schedule
\* at the time of the call is live or completed; the roster of a started
\* tournament never shrinks.
C7_LockedOnceStarted ==
  [][ /\ \A i \in Slots :
           ( /\ Decides(i, "unregister")
             /\ alreadyRegistered(reqs[i].doc, reqs[i].user)
             /\ updateStatus(reqs[i].doc, now) \in {"live", "completed"} )
           => Answered(i, "TournamentLocked") /\ StoreUnchanged
      /\ (tournament.exists /\ now >= tournament.tournamentStart)
           => Len(tournament'.teams) >= Len(tournament.teams)
    ]_vars

\* Slot i's registration is saved in this step.
Saves(i) ==
  /\ reqs[i].op = "register" /\ reqs[i].pc = "saveT"
  /\ reqs'[i].pc = "saveU"

\* C8: a successful register appends one team of the caller, status
\* registered, at the end of the roster, adds 1 to currentTeams and to
\* totalRegistrations, returns the new roster size, and totalRegistrations
\* never decreases.
C8_RegisterEffect ==
  [][ /\ \A i \in Slots :
           Saves(i) =>
             /\ tournament'.teams = Append(tournament.teams, teamData(reqs[i].user))
             /\ tournament'.currentTeams = tournament.currentTeams + 1
             /\ tournament'.totalRegistrations = tournament.totalRegistrations + 1
      /\ \A i \in Slots :
           (reqs[i].op = "register" /\ Answered(i, "ok")) =>
             last'.currentTeams = Len(tournament'.teams)
      /\ tournament'.totalRegistrations >= tournament.totalRegistrations
    ]_vars

\* C9 as stated: whenever currentTeams >= maxTeams on entry, register fails
\* with Conflict for every caller and leaves the store as it was.
C9_FullIsConflictForAll ==
  [][ \A i \in Slots :
        ( /\ Decides(i, "register")
          /\ reqs[i].doc.currentTeams >= reqs[i].doc.maxTeams )
        => Answered(i, "Conflict") /\ StoreUnchanged
    ]_vars

\* C9 amended: whenever the record loaded by the request has
\* currentTeams >= maxTeams and the caller is in none of its roster entries,
\* register fails with Conflict, at every time, and leaves the store as it
\* was.
C9_FullIsConflict ==
  [][ \A i \in Slots :
        ( /\ Decides(i, "register")
          /\ reqs[i].doc.currentTeams >= reqs[i].doc.maxTeams
          /\ ~alreadyRegistered(reqs[i].doc, reqs[i].user) )
        => Answered(i, "Conflict") /\ StoreUnchanged
    ]_vars

\* A register was answered Conflict: the tournament holds maxTeams teams of
\* other users and its registration window is open.
C9_Witness ==
  /\ last.op = "register" /\ last.result = "Conflict"
  /\ tournament.currentTeams = tournament.maxTeams
  /\ Len(tournament.teams) = tournament.maxTeams
  /\ ~alreadyRegistered(tournament, last.user)
  /\ registrationOpen(tournament, now)

\* C10: a register by a user who is in a roster entry of the record the
\* request loaded fails with DuplicateRegistration and leaves the store as
\* it was.
C10_DuplicateRejected ==
  [][ \A i \in Slots :
        ( /\ Decides(i, "register")
          /\ alreadyRegistered(reqs[i].doc, reqs[i].user) )
        => Answered(i, "DuplicateRegistration") /\ StoreUnchanged
    ]_vars

\* A register of a user of the roster was answered DuplicateRegistration
\* while the window is open and a place is left.
C10_Witness ==
  /\ last.op = "register" /\ last.result = "DuplicateRegistration"
  /\ alreadyRegistered(tournament, last.user)
  /\ tournament.currentTeams < tournament.maxTeams
  /\ registrationOpen(tournament, now)

\* The bracket of the tournament has been generated from its roster.
Generated == last.op = "generate" /\ last.result = "ok"

\* r = ceil(log2(n)) for n >= 1.
IsCeilLog2(r, n) == 2 ^ r >= n /\ (r = 0 \/ 2 ^ (r - 1) < n)

\* C12: for a roster with n >= 1 confirmed teams generateBrackets produces
\* exactly R = ceil(log2(n)) rounds numbered 1..R, round r holding exactly
\* 2^(R-r) matches; 8 teams give 3 rounds of 4, 2 and 1 matches.
C12_RoundsAndMatches ==
  LET n == Len(confirmedTeams(tournament))
      b == tournament.brackets
  IN (Generated /\ n >= 1) =>
       /\ IsCeilLog2(Len(b), n)
       /\ \A r \in 1..Len(b) :
            b[r].round = r /\ Len(b[r].matches) = 2 ^ (Len(b) - r)
       /\ n = 8 => /\ Len(b) = 3
                   /\ Len(b[1].matches) = 4
                   /\ Len(b[2].matches) = 2
                   /\ Len(b[3].matches) = 1

\* A bracket was generated for a roster of 8 confirmed teams.
C12_Witness ==
  /\ Generated
  /\ Len(confirmedTeams(tournament)) = 8
  /\ Len(tournament.teams) = 8
  /\ Len(tournament.brackets) = 3

\* The round-1 slots of bracket b, in order: team1 and team2 of match 1,
\* team1 and team2 of match 2, ...
RoundOneSlots(b) ==
  IF Len(b) = 0 THEN <<>>
  ELSE [ j \in 1..(2 * Len(b[1].matches)) |->
           IF j % 2 = 1 THEN b[1].matches[(j + 1) \div 2].team1
                        ELSE b[1].matches[j \div 2].team2 ]

\* Seeding, later rounds and the fresh state of every match.
SeededInOrder(b, conf) ==
  /\ \A j \in 1..Len(RoundOneSlots(b)) :
       RoundOneSlots(b)[j] = IF j <= Len(conf) THEN conf[j].teamId ELSE 0
  /\ \A r \in 2..Len(b) : \A m \in 1..Len(b[r].matches) :
       b[r].matches[m].team1 = 0 /\ b[r].matches[m].team2 = 0
  /\ \A r \in 1..Len(b) : \A m \in 1..Len(b[r].matches) :
       b[r].matches[m].status = "pending" /\ b[r].matches[m].winner = 0

\* Every team of conf is in exactly one round-1 slot of b.
EveryTeamPlaced(b, conf) ==
  \A k \in 1..Len(conf) :
    Cardinality({ j \in 1..Len(RoundOneSlots(b)) :
                    RoundOneSlots(b)[j] = conf[k].teamId }) = 1

\* C13 as stated: round-1 match i pairs the 2i-th and (2i+1)-th confirmed
\* teams, slots past the n-th are empty, every confirmed team occupies
\* exactly one round-1 slot, later rounds are empty, every match is pending
\* without winner.
C13_SeedingPlacesEveryTeam ==
  Generated =>
    /\ SeededInOrder(tournament.brackets, confirmedTeams(tournament))
    /\ EveryTeamPlaced(tournament.brackets, confirmedTeams(tournament))

\* C13 amended: the same, every confirmed team occupying exactly one round-1
\* slot when there are at least two of them (one confirmed team alone gets
\* a bracket of no round).
C13_SeedingInRosterOrder ==
  Generated =>
    /\ SeededInOrder(tournament.brackets, confirmedTeams(tournament))
    /\ Len(confirmedTeams(tournament)) >= 2 =>
         EveryTeamPlaced(tournament.brackets, confirmedTeams(tournament))
    /\ Len(confirmedTeams(tournament)) = 1 => tournament.brackets = <<>>

\* A bracket was generated for 5 confirmed teams among 7: round 1 has 4
\* matches, the third with an empty second slot, the fourth empty.
C13_Witness ==
  /\ Generated
  /\ Len(tournament.teams) = 7
  /\ Len(confirmedTeams(tournament)) = 5
  /\ tournament.teams[1].status = "registered"
  /\ Len(tournament.brackets) = 3
  /\ tournament.brackets[1].matches[3].team1 # 0
  /\ tournament.brackets[1].matches[3].team2 = 0
  /\ tournament.brackets[1].matches[4].team1 = 0

\* Slot i's unregistration is saved to the tournament in this step.
Removes(i) ==
  /\ reqs[i].op = "unregister" /\ reqs[i].pc = "saveT"
  /\ reqs'[i].pc = "saveU"

\* Roster t is roster s without its one entry of user u, the others in
\* their order.
WithoutEntryOf(t, s, u) ==
  /\ Len(t) = Len(s) - 1
  /\ \E k \in 1..Len(s) :
       /\ s[k].userId = u
       /\ \A j \in 1..Len(t) : t[j] = IF j < k THEN s[j] ELSE s[j + 1]
  /\ \A j \in 1..Len(t) : t[j].userId # u

\* The effect of a successful unregister on the stored tournament: one
\* entry less, one team less, nothing else (the document version apart).
UnregisterEffect(i) ==
  /\ WithoutEntryOf(tournament'.teams, tournament.teams, reqs[i].user)
  /\ tournament'.currentTeams = tournament.currentTeams - 1
  /\ tournament' = [ tournament EXCEPT !.teams = tournament'.teams,
                                       !.currentTeams = tournament'.currentTeams,
                                       !.version = tournament'.version ]

\* No other step of an unregistration writes the tournament.
UnregisterWritesOnce ==
  \A i \in Slots :
    (reqs[i].op = "unregister" /\ reqs'[i] # reqs[i] /\ ~Removes(i))
      => tournament' = tournament

\* C11 as stated: a successful unregister removes exactly the one roster
\* entry of the caller, keeps the others and their order, takes 1 from
\* currentTeams and leaves maxTeams, totalRegistrations, bracket and chat
\* log as they were; an unregister by a user in no roster entry fails with
\* NotRegistered and changes nothing.
C11_UnregisterFrameForAll ==
  [][ /\ \A i \in Slots : Removes(i) => UnregisterEffect(i)
      /\ UnregisterWritesOnce
      /\ \A i \in Slots :
           ( /\ Decides(i, "unregister")
             /\ ~alreadyRegistered(reqs[i].doc, reqs[i].user) )
           => Answered(i, "NotRegistered") /\ StoreUnchanged
    ]_vars

\* C11 amended: the same effect of a successful unregister; an unregister
\* by a user in no roster entry of a tournament whose stored status is
\* neither live nor completed fails with NotRegistered and changes nothing
\* (of a live or completed one it fails with TournamentLocked).
C11_UnregisterFrame ==
  [][ /\ \A i \in Slots : Removes(i) => UnregisterEffect(i)
      /\ UnregisterWritesOnce
      /\ \A i \in Slots :
           ( /\ Decides(i, "unregister")
             /\ ~alreadyRegistered(reqs[i].doc, reqs[i].user) )
           => /\ StoreUnchanged
              /\ IF reqs[i].doc.status \in { "live", "completed" }
                 THEN Answered(i, "TournamentLocked")
                 ELSE Answered(i, "NotRegistered")
    ]_vars

\* User 2 has unregistered from the roster of users 1, 2 and 3 whose
\* bracket was generated and whose chat log holds a message.
C11_Witness ==
  /\ last.op = "unregister" /\ last.result = "ok" /\ last.user = 2
  /\ tournament.teams = << confirmedTeam(1), confirmedTeam(3) >>
  /\ tournament.currentTeams = 2
  /\ Len(tournament.brackets) = 2
  /\ Len(tournament.chat) = 1

\* Slot i's bracket request gets the record it asked for in this step: the
\* synchronous part of the handler of operation op runs on the store.
Handles(i, op) ==
  /\ reqs[i].op = op /\ reqs[i].pc = "called"
  /\ reqs'[i].pc # "called"

\* Slot i's request of operation op is saved in this step.
Writes(i, op) ==
  /\ reqs[i].op = op /\ reqs[i].pc = "saveT"
  /\ reqs'[i].pc = "idle"

\* C14: a generateBrackets or recordMatchResult request whose caller is not
\* the organizer of the tournament fails with Forbidden and leaves the
\* tournament as it was; the bracket only changes by the save of a request
\* of the organizer.
C14_OrganizerOnly ==
  [][ /\ \A i \in Slots :
           ( /\ Handles(i, "generate") \/ Handles(i, "match")
             /\ tournament.exists
             /\ reqs[i].user # tournament.organizer )
           => Answered(i, "Forbidden") /\ StoreUnchanged
      /\ (tournament.exists /\ tournament'.brackets # tournament.brackets)
           => \E i \in Slots :
                /\ Writes(i, "generate") \/ Writes(i, "match")
                /\ reqs[i].user = tournament.organizer
    ]_vars

\* A result recording of user 2, who is not the organizer, was answered
\* Forbidden while the bracket holds matches.
C14_Witness ==
  /\ last.op = "match" /\ last.result = "Forbidden"
  /\ last.user # tournament.organizer
  /\ Len(tournament.brackets) = 2

\* No match of bracket b carries id.
NoMatchCarries(b, id) ==
  \A r \in 1..Len(b) : \A m \in 1..Len(b[r].matches) :
    b[r].matches[m].matchId # id

\* C15: recordMatchResult by the organizer with a matchId that no match of
\* any round carries fails with NotFound and leaves every match as it was.
C15_UnknownMatchNotFound ==
  [][ \A i \in Slots :
        ( /\ Handles(i, "match")
          /\ tournament.exists
          /\ reqs[i].user = tournament.organizer
          /\ NoMatchCarries(tournament.brackets, reqs[i].body.matchId) )
        => Answered(i, "NotFound") /\ StoreUnchanged
    ]_vars

\* The organizer's recording for a match id of round 3 was answered
\* NotFound while the bracket holds two rounds.
C15_Witness ==
  /\ last.op = "match" /\ last.result = "NotFound"
  /\ last.user = tournament.organizer
  /\ Len(tournament.brackets) = 2
  /\ NoMatchCarries(tournament.brackets, matchId(3, 1))

\* The positions of the matches of bracket b.
Positions(b) ==
  UNION { { <<r, m>> : m \in 1..Len(b[r].matches) } : r \in 1..Len(b) }

\* The match ids of bracket b are pairwise different.
IdsUnique(b) ==
  \A p \in Positions(b), q \in Positions(b) :
    p # q => b[p[1]].matches[p[2]].matchId # b[q[1]].matches[q[2]].matchId

\* Every match of a round >= 2 of bracket b has both team slots empty.
LaterRoundsEmpty(b) ==
  \A p \in Positions(b) :
    p[1] >= 2 => b[p[1]].matches[p[2]].team1 = 0 /\ b[p[1]].matches[p[2]].team2 = 0

\* Bracket c is bracket b with winner, score and status completed set on
\* the match at position p and nothing else changed.
OnlyResultAt(c, b, p, body) ==
  /\ Len(c) = Len(b)
  /\ \A r \in 1..Len(b) : c[r].round = b[r].round /\ Len(c[r].matches) = Len(b[r].matches)
  /\ \A q \in Positions(b) :
       LET old == b[q[1]].matches[q[2]]
           new == c[q[1]].matches[q[2]]
       IN IF q = p
          THEN /\ new.winner = body.winner /\ new.score = body.score
               /\ new.status = "completed"
               /\ new.matchId = old.matchId
               /\ new.team1 = old.team1 /\ new.team2 = old.team2
          ELSE new = old

\* C16: the match ids of a generated bracket are unique; a successful
\* recordMatchResult sets winner, score and status completed on exactly the
\* one match that carries the matchId and changes nothing else of the
\* tournament (other matches, roster, currentTeams); so every match of a
\* round >= 2 keeps both team slots empty.
C16_ResultOnOneMatch ==
  [][ /\ IdsUnique(tournament'.brackets)
      /\ LaterRoundsEmpty(tournament'.brackets)
      /\ \A i \in Slots :
           (Writes(i, "match") /\ Answered(i, "ok")) =>
             /\ \E p \in Positions(tournament.brackets) :
                  /\ tournament.brackets[p[1]].matches[p[2]].matchId = reqs[i].body.matchId
                  /\ OnlyResultAt(tournament'.brackets, tournament.brackets, p, reqs[i].body)
             /\ tournament' = [ tournament EXCEPT !.brackets = tournament'.brackets ]
    ]_vars

\* The organizer has recorded the result of the first match of round 1 of
\* a bracket of two rounds: it is completed with winner 2, the other
\* matches are pending and round 2 has no team.
C16_Witness ==
  /\ last.op = "match" /\ last.result = "ok"
  /\ Len(tournament.brackets) = 2
  /\ tournament.brackets[1].matches[1].status = "completed"
  /\ tournament.brackets[1].matches[1].winner = 2
  /\ tournament.brackets[1].matches[2].status = "pending"
  /\ tournament.brackets[2].matches[1].status = "pending"
  /\ tournament.brackets[2].matches[1].team1 = 0
  /\ Len(tournament.teams) = 3

\* The users of scope g: the active users, for a game those with
\* statistics for it.
InScope(g) ==
  { u \in DOMAIN users :
      /\ users[u].isActive
      /\ g = "overall" \/ \E k \in 1..Len(users[u].gameStats) :
                             users[u].gameStats[k].game = g }

\* The score of user u of scope g in that scope.
ScoreIn(u, g) ==
  IF g = "overall" THEN users[u].totalScore
  ELSE users[u].gameStats[CHOOSE k \in 1..Len(users[u].gameStats) :
                            users[u].gameStats[k].game = g].score

\* The lists of the users of scope g by descending score.
Rankings(g) ==
  SortedSeqs({ [ userId |-> u, score |-> ScoreIn(u, g) ] : u \in InScope(g) })

\* C17: for every page p >= 1 and limit >= 1 the leaderboard query (global,
\* or per game) returns exactly the rows at positions (p-1)*limit+1 ..
\* p*limit of the users of the scope sorted by descending score, the k-th
\* row of the page carrying rank (p-1)*limit + k.
C17_LeaderboardPage ==
  last.op \in { "global", "game" } =>
    /\ last.result = "ok"
    /\ \E ranking \in Rankings(last.scope) :
         LET first == (last.page - 1) * last.limit + 1
             size == IF Len(ranking) < first THEN 0
                     ELSE IF Len(ranking) - first + 1 < last.limit
                          THEN Len(ranking) - first + 1 ELSE last.limit
         IN /\ Len(last.rows) = size
            /\ \A k \in 1..size :
                 /\ last.rows[k].userId = ranking[first + k - 1].userId
                 /\ last.rows[k].score = ranking[first + k - 1].score
                 /\ last.rows[k].rank = first + k - 1

\* C18: getUserRank returns userRank = 1 + the number of active users whose
\* score in the same scope is strictly greater than the user's: totalScore
\* overall, and for game g the score each user has for g only.
C18_RankCountsSameScope ==
  (last.op = "rank" /\ last.result = "ok") =>
    LET g == last.scope
        mine == IF last.user \in InScope(g) \/ g = "overall"
                THEN ScoreIn(last.user, g)
                ELSE IF \E k \in 1..Len(users[last.user].gameStats) :
                          users[last.user].gameStats[k].game = g
                     THEN ScoreIn(last.user, g) ELSE 0
    IN last.userRank =
         1 + Cardinality({ v \in InScope(g) : ScoreIn(v, g) > mine })

\* C19: the neighbor window of getUserRank holds the rows ranked
\* max(1, userRank-5) .. userRank+5 of the sorted scope (fewer only when the
\* scope has fewer users), with consecutive ranks from max(1, userRank-5);
\* for a user at rank 1 the window is ranks 1..6.
C19_NeighborWindow ==
  (last.op = "rank" /\ last.result = "ok") =>
    LET n == Cardinality(InScope(last.scope))
        lo == IF last.userRank - 5 > 1 THEN last.userRank - 5 ELSE 1
        hi == IF last.userRank + 5 < n THEN last.userRank + 5 ELSE n
    IN /\ Len(last.rows) = IF hi >= lo THEN hi - lo + 1 ELSE 0
       /\ \A k \in 1..Len(last.rows) :
            /\ last.rows[k].rank = lo + k - 1
            /\ last.rows[k].userId \in InScope(last.scope)
            /\ last.rows[k].score = ScoreIn(last.rows[k].userId, last.scope)
            /\ k > 1 => last.rows[k - 1].score >= last.rows[k].score

\* The cached rank of user u of scope g.
CachedRank(u, g) ==
  IF g = "overall" THEN users[u].globalRank
  ELSE users[u].gameStats[CHOOSE k \in 1..Len(users[u].gameStats) :
                            users[u].gameStats[k].game = g].rank

\* A batch re-rank has completed.
Reranked == last.op = "rerank" /\ last.result = "ok"

\* C20: after a batch re-rank that completes with no concurrent score
\* change, in each scope the cached ranks of the N active users of the
\* scope are exactly the values 1..N, each used once, and a user with a
\* strictly greater score has a strictly smaller cached rank.
C20_RerankIsPermutation ==
  Reranked =>
    \A g \in Scopes :
      /\ { CachedRank(u, g) : u \in InScope(g) } = 1..Cardinality(InScope(g))
      /\ \A u \in InScope(g), v \in InScope(g) :
           /\ u # v => CachedRank(u, g) # CachedRank(v, g)
           /\ ScoreIn(u, g) > ScoreIn(v, g) => CachedRank(u, g) < CachedRank(v, g)

\* A batch re-rank has completed on a collection with three active users
\* overall, two of them of equal score, and two users in the scope of the
\* first game.
C20_Witness ==
  /\ Reranked
  /\ Cardinality(InScope("overall")) = 3
  /\ \E u \in InScope("overall"), v \in InScope("overall") :
       u # v /\ ScoreIn(u, "overall") = ScoreIn(v, "overall")
  /\ \E u \in InScope("overall"), v \in InScope("overall") :
       ScoreIn(u, "overall") > ScoreIn(v, "overall")
  /\ Cardinality(InScope(GameList[1])) = 2
  /\ \A i \in Slots : reqs[i].pc = "idle"

\* An event was emitted in this step.
Publishes == Len(io'.emitted) = Len(io.emitted) + 1

\* The event emitted in this step.
Published == io'.emitted[Len(io'.emitted)]

\* Connection c is open and subscribed to tournament t.
Subscribed(c, t) == io.connected[c] /\ t \in io.joined[c]

\* C21: a published event (chat-message or tournament-update) for
\* tournament T is delivered to every connection currently subscribed to T
\* and to no connection that is not subscribed to T, whatever other rooms
\* exist; nothing is delivered without a publish.
C21_DeliveredToSubscribersOnly ==
  [][ /\ Publishes =>
           \A c \in Conns :
             io'.delivered[c] =
               IF Subscribed(c, Published.tournamentId)
               THEN Append(io.delivered[c], Published)
               ELSE io.delivered[c]
      /\ ~Publishes =>
           \A c \in Conns :
             io.connected[c] /\ io'.connected[c]
               => io'.delivered[c] = io.delivered[c]
    ]_vars

\* An event for tournament 1 was emitted while one connection was
\* subscribed to tournament 1 and the other to tournament 2 only: the
\* first was sent it, the second was not.
C21_Witness ==
  /\ Len(io.emitted) = 1 /\ io.emitted[1].tournamentId = 1
  /\ io.joined[1] = { 1 } /\ io.joined[2] = { 2 }
  /\ io.delivered[1] = io.emitted /\ io.delivered[2] = <<>>

\* User u is a player of a roster entry of tournament d, or its organizer.
Member(d, u) ==
  \/ d.organizer = u
  \/ \E k \in 1..Len(d.teams) : d.teams[k].userId = u

\* Slot i reads the tournament for a chat post in this step.
ReadsForPost(i) ==
  /\ reqs[i].pc = "idle"
  /\ reqs'[i].pc = "loaded" /\ reqs'[i].op = "post"

\* C22: postChatMessage by a user who is neither a player of any roster
\* entry of the tournament nor its organizer when the request reads the
\* tournament fails with Forbidden and leaves the Chat Log (and the rest of
\* the store) unchanged, also after that user has unregistered; the log
\* only grows by the post of a user who was a member when the post read the
\* tournament.
C22_NonMemberForbidden ==
  [][ /\ \A i \in Slots :
           /\ ReadsForPost(i) => reqs'[i].doc = tournament
           /\ (Decides(i, "post") /\ ~Member(reqs[i].doc, reqs[i].user))
                => Answered(i, "Forbidden") /\ StoreUnchanged
      /\ (tournament.exists /\ Len(tournament'.chat) > Len(tournament.chat))
           => \E i \in Slots :
                /\ Writes(i, "post")
                /\ Member(reqs[i].doc, reqs[i].user)
                /\ tournament'.chat[Len(tournament'.chat)].userId = reqs[i].user
    ]_vars

\* User 2, a player of every roster the tournament is created with, posted
\* a message, unregistered, and was then answered Forbidden for another
\* post.
C22_Witness ==
  /\ last.op = "post" /\ last.result = "Forbidden" /\ last.user = 2
  /\ ~Member(tournament, 2)
  /\ Len(tournament.chat) = 1 /\ tournament.chat[1].userId = 2

\* getChatMessages answers in this step.
AnswersMessages ==
  /\ last' # last
  /\ last'.op = "messages" /\ last'.result = "ok"

\* C23: getChatMessages is most-recent-first: for every limit >= 1, page 1
\* lists the min(limit, total) newest messages of the Chat Log in reverse
\* append order; a successful post appends its message at the end of the
\* log, so that it is the first element of page 1 right after.
C23_NewestFirst ==
  [][ /\ (AnswersMessages /\ last'.page = 1) =>
           LET total == Len(tournament.chat)
               size == IF last'.limit < total THEN last'.limit ELSE total
           IN /\ Len(last'.rows) = size
              /\ \A k \in 1..size : last'.rows[k] = tournament.chat[total + 1 - k]
      /\ \A i \in Slots :
           (Writes(i, "post") /\ last'.result = "ok") =>
             /\ tournament'.chat # <<>>
             /\ messagesPage(tournament'.chat, 1, 1)[1].userId = reqs[i].user
             /\ messagesPage(tournament'.chat, 1, 1)[1].message = reqs[i].body.message
             /\ \A limit \in Limits :
                  messagesPage(tournament'.chat, 1, limit)[1]
                    = tournament'.chat[Len(tournament'.chat)]
    ]_vars

\* Page 1 with limit 1 of a log of two messages was read: it holds the
\* second message.
C23_Witness ==
  /\ last.op = "messages" /\ last.result = "ok"
  /\ last.page = 1 /\ last.limit = 1
  /\ Len(tournament.chat) = 2
  /\ last.rows = << tournament.chat[2] >>
  /\ tournament.chat[2].userId = 2

\* C24: the Chat Log is the system of record for chat: every
\* chat-message event delivered to the subscribers of tournament T carries
\* a message that is persisted in T's Chat Log before or concurrently with
\* the publish; no chat-message event is delivered for which the Chat Log
\* holds no entry.
C24_DeliveredChatIsPersisted ==
  \A c \in Conns : \A k \in 1..Len(io.delivered[c]) :
    LET e == io.delivered[c][k]
    IN (e.kind = "chat-message" /\ e.tournamentId = 1) =>
         \E j \in 1..Len(tournament.chat) :
           /\ tournament.chat[j].message = e.message
           /\ tournament.chat[j].userId = e.user

\* A mutation of the tournament, or a chat post, was answered with success.
MutationSucceeded ==
  last.result = "ok" /\ last.op \in { "post", "unregister" }

\* C27: after every successful register, unregister, lifecycle status
\* change or match-result recording on tournament T a tournament-update
\* event is eventually published to the connections subscribed to T, and
\* after every successful postChatMessage a chat-message event.
C27_MutationsPublish ==
  \A n \in 0..(MaxEvents - 1) :
    (MutationSucceeded /\ Len(io.emitted) = n) ~> (Len(io.emitted) > n)

\* Sequence s is a prefix of sequence t.
IsPrefix(s, t) == Len(s) <= Len(t) /\ SubSeq(t, 1, Len(s)) = s

\* C25: the Chat Log is append-only: the Chat Log of an earlier state is a
\* prefix of the Chat Log of every later state (no message is ever removed,
\* replaced or reordered).
C25_ChatLogAppendOnly ==
  [][ tournament.exists => IsPrefix(tournament.chat, tournament'.chat) ]_vars

\* The messages of a log.
Messages(chat) == { chat[k] : k \in 1..Len(chat) }

\* Slot i's deletion is saved in this step and takes exactly message m out
\* of the log.
Deletes(i, m) ==
  /\ Writes(i, "delete") /\ last'.result = "ok"
  /\ Messages(tournament'.chat) = Messages(tournament.chat) \ { m }

\* C26: when two chat posts, or a chat post and a register, unregister,
\* result recording or message deletion on the same tournament interleave,
\* each loading the record before the other saves, every post that reports
\* success is present in the Chat Log afterwards: the message of a
\* successful post is in the log at its response, and a message leaves
\* the log only by a successful deletion of that message.
C26_NoLostAppend ==
  [][ /\ \A i \in Slots :
           (Writes(i, "post") /\ last'.result = "ok") =>
             /\ reqs[i].doc.chat[Len(reqs[i].doc.chat)] \in Messages(tournament'.chat)
             /\ Len(tournament'.chat) = Len(tournament.chat) + 1
      /\ tournament.exists =>
           \A m \in Messages(tournament.chat) :
             m \notin Messages(tournament'.chat) => \E i \in Slots : Deletes(i, m)
    ]_vars

\* Two posts that both read the tournament at version 0, before either was
\* saved, have both reported success, and both messages are in the log.
C26_Witness ==
  /\ last.op = "post" /\ last.result = "ok"
  /\ Len(tournament.chat) = 2
  /\ { tournament.chat[1].id, tournament.chat[2].id }
       = { messageId(1, NoTournament), messageId(2, NoTournament) }

\* listTournaments answers in this step.
ListsNow == last' # last /\ last'.op = "list"

\* C28: every read of a tournament reports the status derived from its
\* schedule at the time of the read: the status returned by getTournament,
\* and the status returned and filtered on by listTournaments, equal the
\* derived status at that time for every non-cancelled tournament, however
\* long ago the record was last written.
C28_ReadsReportDerivedStatus ==
  [][ /\ \A i \in Slots :
           ReadNow(i) => StatusTableInOrder(reqs'[i].doc, now, reqs'[i].doc.status)
      /\ ( /\ ListsNow
           /\ tournament.exists /\ Ordered(tournament)
           /\ tournament.status # "cancelled" )
           => /\ last'.rows # <<>>
                   <=> ( \/ last'.scope = "any"
                         \/ StatusTableInOrder(tournament, now, last'.scope) )
              /\ last'.rows # <<>>
                   => StatusTableInOrder(tournament, now, last'.rows[1].status)
    ]_vars

\* C29: every tournament that createTournament accepts and stores satisfies
\* registrationStart <= registrationEnd <= tournamentStart <= tournamentEnd
\* (when the end is set), maxTeams is a positive integer, and it starts with
\* an empty roster and currentTeams = 0; a request violating the schedule
\* ordering is rejected.
C29_CreatedWellFormed ==
  [][ (~tournament.exists /\ tournament'.exists) =>
        /\ Ordered(tournament')
        /\ tournament'.maxTeams >= 1
        /\ tournament'.teams = <<>> /\ tournament'.currentTeams = 0
    ]_vars

\* Slot i's generate request is saved and answered with success in this
\* step.
Regenerates(i) == Writes(i, "generate") /\ last'.result = "ok"

\* Bracket b is the one of a roster whose confirmed teams are conf, with
\* nothing recorded: the rounds and matches of conf, seeded in order, every
\* match pending with no winner and no score.
FreshBracketOf(b, conf) ==
  /\ Len(conf) <= 1 => b = <<>>
  /\ Len(conf) >= 2 => IsCeilLog2(Len(b), Len(conf))
  /\ \A r \in 1..Len(b) :
       /\ b[r].round = r
       /\ Len(b[r].matches) = 2 ^ (Len(b) - r)
       /\ \A m \in 1..Len(b[r].matches) : b[r].matches[m].score = <<>>
  /\ SeededInOrder(b, conf)

\* C30: generateBrackets replaces the whole bracket with one computed from
\* the confirmed roster alone: after a successful generation the stored
\* bracket is the fresh bracket of the stored confirmed roster, whatever
\* winners, scores and completed statuses the bracket held before, the
\* roster is as it was, and generating again on the unchanged roster
\* yields the same bracket.
C30_GenerateReplacesBracket ==
  [][ \A i \in Slots : Regenerates(i) =>
        /\ FreshBracketOf(tournament'.brackets, confirmedTeams(tournament'))
        /\ tournament'.brackets
             = generateBrackets([ tournament' EXCEPT !.brackets = <<>> ])
        /\ tournament'.teams = tournament.teams
        /\ generateBrackets(tournament') = tournament'.brackets
    ]_vars

\* A second generation succeeded on the unchanged roster of three teams: the
\* bracket of two rounds stands with every match pending.
C30_Witness ==
  /\ Generated
  /\ tournament.version = 2
  /\ Len(tournament.teams) = 3 /\ Len(confirmedTeams(tournament)) = 3
  /\ Len(tournament.brackets) = 2
  /\ tournament.brackets[1].matches[1].status = "pending"
  /\ tournament.brackets[1].matches[1].winner = 0

\* User document ud without its cached ranks.
Unranked(ud) ==
  [ ud EXCEPT !.globalRank = 0,
              !.gameStats = [ k \in DOMAIN @ |-> [ @[k] EXCEPT !.rank = 0 ] ] ]

\* A batch re-rank takes a step.
RerankStep == \E i \in Slots : reqs[i].op = "rerank" /\ reqs'[i] # reqs[i]

\* Slot i's score update is saved in this step.
StatsSaved(i) ==
  /\ reqs[i].op = "stats" /\ reqs[i].pc = "saveU"
  /\ reqs'[i].pc = "idle" /\ last'.result = "ok"

\* C31: the batch re-rank writes only the cached ranks (stats.globalRank,
\* gameStats.rank): each of its steps leaves the scores, wins, losses and
\* active flag of every user and the tournament as they were, and a score
\* update of a user saved while a re-rank is running stores what it stores
\* without one: the stored totals and the stored entry of the game plus the
\* reported result and score.
C31_RerankWritesRanksOnly ==
  [][ /\ RerankStep =>
           /\ tournament' = tournament
           /\ DOMAIN users' = DOMAIN users
           /\ \A u \in DOMAIN users : Unranked(users'[u]) = Unranked(users[u])
      /\ \A i \in Slots : StatsSaved(i) =>
           LET u == reqs[i].user
               b == reqs[i].body.stat
               seq == withGame(withOverall(users[u], b), b)
           IN /\ users'[u].totalScore = users[u].totalScore + b.score
              /\ users'[u].totalWins + users'[u].totalLosses
                   = users[u].totalWins + users[u].totalLosses + 1
              /\ Unranked(users'[u]).gameStats = Unranked(seq).gameStats
              /\ users'[u].isActive = users[u].isActive
    ]_vars

\* A re-rank read the overall scores while user 1 had none, user 1's score
\* update was saved since, and the re-rank is about to write its ranks.
C31_Witness ==
  /\ last.op = "stats" /\ last.result = "ok" /\ last.user = 1
  /\ users[1].totalScore = 1 /\ users[1].totalWins = 1
  /\ \E i \in Slots :
       /\ reqs[i].op = "rerank" /\ reqs[i].pc = "write"
       /\ reqs[i].scope = "overall"
       /\ \E k \in 1..Len(reqs[i].list) :
            reqs[i].list[k].userId = 1 /\ reqs[i].list[k].score = 0

\* The user collection without its cached ranks.
Erased == [ u \in DOMAIN users |-> Unranked(users[u]) ]

\* The pages a leaderboard query may return on collection us.
PagesOn(us, g, page, limit) ==
  { withRanks(skipLimit(sorted, (page - 1) * limit, limit), (page - 1) * limit + 1) :
      sorted \in SortedSeqs(scopeRows(us, g)) }

\* The userRank getUserRank returns for user u on collection us.
UserRankOn(us, u, g) ==
  Cardinality({ v \in DOMAIN us : above(us[v], g, userScore(us[u], g)) }) + 1

\* The neighbor windows getUserRank may return for user u on collection us.
WindowsOn(us, u, g) ==
  LET userRank == UserRankOn(us, u, g)
      skip == IF userRank - WindowSkip > 0 THEN userRank - WindowSkip ELSE 0
      first == IF userRank - WindowBack > 1 THEN userRank - WindowBack ELSE 1
  IN { neighbors(skipLimit(sorted, skip, WindowLimit), first, u) :
         sorted \in SortedSeqs(scopeRows(us, g)) }

\* The podiums the top-3 query may return on collection us.
PodiumsOn(us, g) ==
  { podium(us, g, skipLimit(sorted, 0, PodiumSize)) :
      sorted \in SortedSeqs(podiumRows(us, g)) }

\* A ranking read is answered in this step.
RankingRead == last' # last /\ last'.op \in { "global", "game", "rank", "top3" }

\* C32: the rank numbers served by reads do not depend on the cached ranks:
\* whatever a leaderboard page, the podium or getUserRank returns in a state
\* (rank, userRank, rows in their order), it may return in the state that
\* differs only in stats.globalRank and gameStats.rank, so a read before,
\* during or after a batch re-rank returns the same rank numbers.
C32_ReadsIgnoreCachedRanks ==
  [][ RankingRead =>
        LET r == last'
        IN /\ r.op = "game" => r.rows \in PagesOn(Erased, r.scope, r.page, r.limit)
           /\ r.op = "global" =>
                r.result = IF \E rows \in PagesOn(Erased, r.scope, r.page, r.limit) :
                                rows # <<>>
                           THEN "ServerError" ELSE "ok"
           /\ r.op = "rank" =>
                /\ r.userRank = UserRankOn(Erased, r.user, r.scope)
                /\ r.rows \in WindowsOn(Erased, r.user, r.scope)
           /\ r.op = "top3" => r.rows \in PodiumsOn(Erased, r.scope)
    ]_vars

\* getUserRank answered rank 1 for a user whose cached global rank is 2 (a
\* tie of the top score) while the batch re-rank is between two scopes.
C32_Witness ==
  /\ last.op = "rank" /\ last.result = "ok" /\ last.scope = "overall"
  /\ last.userRank = 1
  /\ last.user \in DOMAIN users /\ users[last.user].globalRank = 2
  /\ \E i \in Slots : reqs[i].op = "rerank" /\ reqs[i].pc \in { "find", "write" }

\* The collection without its inactive users other than u.
ActiveAnd(u) ==
  [ v \in { w \in DOMAIN users : users[w].isActive \/ w = u } |-> users[v] ]

\* A search is answered in this step.
SearchRead == last' # last /\ last'.op = "search"

\* C33: inactive users are excluded from all ranking computations: no row
\* of a leaderboard page, of the podium, of a neighbor window or of a search
\* result is a user with isActive = false, getUserRank counts the users
\* above as on the collection without the inactive users, and the batch
\* re-rank writes no rank of an inactive user and gives the positions 1..N
\* to the N active users of the scope.
C33_InactiveExcluded ==
  [][ /\ (RankingRead \/ SearchRead) =>
           \A k \in 1..Len(last'.rows) : users[last'.rows[k].userId].isActive
      /\ (RankingRead /\ last'.op = "rank") =>
           last'.userRank = UserRankOn(ActiveAnd(last'.user), last'.user, last'.scope)
      /\ \A i \in Slots :
           (reqs[i].op = "rerank" /\ reqs[i].pc = "write" /\ users' # users) =>
             /\ \A u \in DOMAIN users : ~users[u].isActive => users'[u] = users[u]
             /\ LET g == reqs[i].scope
                    written(u) ==
                      IF g = "overall" THEN users'[u].globalRank
                      ELSE users'[u].gameStats[
                             CHOOSE k \in 1..Len(users'[u].gameStats) :
                               users'[u].gameStats[k].game = g].rank
                IN { written(u) : u \in InScope(g) } = 1..Cardinality(InScope(g))
    ]_vars

\* The batch re-rank has given rank 1 to an active user while an inactive
\* user holds a higher score and no rank, and the podium answered without
\* the inactive user.
C33_Witness ==
  /\ last.op = "top3" /\ last.scope = "overall" /\ last.rows # <<>>
  /\ \E u \in DOMAIN users, v \in DOMAIN users :
       /\ users[u].isActive /\ users[u].globalRank = 1
       /\ last.rows[1].userId = u
       /\ ~users[v].isActive /\ users[v].totalScore > users[u].totalScore
       /\ users[v].globalRank = 0

\* The podium is answered in this step.
PodiumRead == last' # last /\ last'.op = "top3"

\* The wins and losses of user u in scope g.
WinsIn(u, g) ==
  IF g = "overall" THEN users[u].totalWins
  ELSE users[u].gameStats[CHOOSE k \in 1..Len(users[u].gameStats) :
                            users[u].gameStats[k].game = g].wins

LossesIn(u, g) ==
  IF g = "overall" THEN users[u].totalLosses
  ELSE users[u].gameStats[CHOOSE k \in 1..Len(users[u].gameStats) :
                            users[u].gameStats[k].game = g].losses

\* rate, in tenths of a percent, is w / (w + l) * 100 rounded to one
\* decimal, or 0 when w + l = 0.
IsWinRate(rate, w, l) ==
  IF w + l = 0 THEN rate = 0
  ELSE /\ 2 * (rate * (w + l) - 1000 * w) <= w + l
       /\ 2 * (1000 * w - rate * (w + l)) <= w + l

\* C34: the podium of a scope, overall or a game, has at most 3 rows,
\* ranked 1..k in descending score order, and the winRate of each row is
\* wins / (wins + losses) * 100 of the wins and losses of the user in that
\* scope: 0 exactly when the user has played no game, and above 0 for a user
\* with a win.
C34_PodiumWinRate ==
  [][ PodiumRead =>
        LET r == last'
        IN /\ Len(r.rows) <= 3
           /\ \A k \in 1..Len(r.rows) :
                /\ r.rows[k].rank = k
                /\ k > 1 => r.rows[k - 1].score >= r.rows[k].score
                /\ IsWinRate(r.rows[k].winRate,
                             WinsIn(r.rows[k].userId, r.scope),
                             LossesIn(r.rows[k].userId, r.scope))
                /\ r.rows[k].winRate = 0
                     <=> WinsIn(r.rows[k].userId, r.scope)
                           + LossesIn(r.rows[k].userId, r.scope) = 0
                /\ WinsIn(r.rows[k].userId, r.scope) >= 1 => r.rows[k].winRate > 0
    ]_vars

\* C35: nothing sets a team's status to confirmed: on a tournament created
\* with an empty roster, whatever register, unregister, generateBrackets
\* and recordMatchResult requests run, every roster entry has status
\* registered, the bracket has no round (also after a successful
\* generation), and every well-formed result recording of the organizer is
\* answered NotFound, none reaching its save, however many teams are
\* registered.
C35_NothingConfirmed ==
  [][ /\ tournament'.exists =>
           /\ \A k \in 1..Len(tournament'.teams) :
                tournament'.teams[k].status = "registered"
           /\ tournament'.brackets = <<>>
      /\ \A i \in Slots :
           /\ Regenerates(i) => generateBrackets(tournament') = <<>>
           /\ (Handles(i, "match") /\ tournament.exists
                 /\ reqs[i].user = tournament.organizer)
                => Answered(i, "NotFound") /\ StoreUnchanged
           /\ ~(reqs'[i].op = "match" /\ reqs'[i].pc = "saveT")
    ]_vars

\* The organizer's recording for the first match was answered NotFound on
\* a tournament with three registered teams.
C35_Witness ==
  /\ last.op = "match" /\ last.result = "NotFound"
  /\ tournament.exists /\ Len(tournament.teams) = 3
  /\ tournament.currentTeams = 3
  /\ tournament.brackets = <<>>

\* C36: for an active user of the scope the neighbor window of getUserRank
\* holds exactly one row flagged isCurrentUser, and the rank on that row is
\* the userRank returned, also when users of the scope have equal scores.
C36_OwnRowCarriesUserRank ==
  ( /\ last.op = "rank" /\ last.result = "ok"
    /\ last.user \in InScope(last.scope) )
    => /\ Cardinality({ k \in 1..Len(last.rows) : last.rows[k].isCurrentUser }) = 1
       /\ \A k \in 1..Len(last.rows) :
            last.rows[k].isCurrentUser => last.rows[k].rank = last.userRank

\* ceil(total / limit)
PageCount(total, limit) == (total + limit - 1) \div limit

\* C37: the pages of getChatMessages partition the Chat Log: for a log of
\* `total` messages and a limit >= 1, page p of 1..ceil(total / limit)
\* lists the messages total - (p - 1) * limit down to
\* max(1, total - p * limit + 1) in that order (so the pages together list
\* every message once, newest first), hasMore is true exactly when p is
\* not the last page, and every page past the last is empty.
C37_PagesPartitionLog ==
  [][ (AnswersMessages /\ last'.result = "ok") =>
        LET r == last'
            total == Len(tournament.chat)
            top == total - (r.page - 1) * r.limit
            size == IF top > r.limit THEN r.limit ELSE top
        IN /\ r.page <= PageCount(total, r.limit) =>
                /\ Len(r.rows) = size
                /\ \A k \in 1..size : r.rows[k] = tournament.chat[top - k + 1]
           /\ r.page > PageCount(total, r.limit) => r.rows = <<>>
           /\ r.hasMore <=> r.page < PageCount(total, r.limit)
    ]_vars

\* No register or unregister request is in flight.
AllReturned == \A i \in Slots : reqs[i].pc = "idle"

\* User u is a player of a roster entry of the tournament.
InRoster(u) ==
  /\ tournament.exists
  /\ \E k \in 1..Len(tournament.teams) : tournament.teams[k].userId = u

\* C38: once every register and unregister request has returned, with
\* success or with an error, the tournament list of a user holds the
\* tournament if and only if the roster of the tournament holds the user.
C38_ListMatchesRoster ==
  AllReturned =>
    \A u \in Users : users[u].tournaments > 0 <=> InRoster(u)

\* The team ids of the roster.
RosterTeams == { tournament.teams[k].teamId : k \in 1..Len(tournament.teams) }

\* C39: every non-empty team slot of a bracket match refers to a team of
\* the roster: team1 and team2 of each match are team ids of current roster
\* entries, also after an unregister accepted after the bracket was
\* generated.
C39_BracketTeamsInRoster ==
  tournament.exists =>
    \A r \in 1..Len(tournament.brackets) :
      \A m \in 1..Len(tournament.brackets[r].matches) :
        LET match == tournament.brackets[r].matches[m]
        IN /\ match.team1 # 0 => match.team1 \in RosterTeams
           /\ match.team2 # 0 => match.team2 \in RosterTeams

\* The place of a status in the lifecycle.
Stage(st) ==
  CASE st = "draft" -> 1
    [] st = "registration" -> 2
    [] st = "upcoming" -> 3
    [] st = "live" -> 4
    [] st = "completed" -> 5
    [] OTHER -> 0

\* C40: the stored status never moves backwards: for a non-cancelled
\* tournament with an ordered schedule, whatever reads and mutations run as
\* time passes, every change of the stored status goes forward in
\* draft, registration, upcoming, live, completed, and completed is never
\* left.
C40_StatusNeverMovesBack ==
  [][ ( /\ tournament.exists /\ tournament'.exists
        /\ Ordered(tournament)
        /\ tournament.status # "cancelled" /\ tournament'.status # "cancelled" )
        => Stage(tournament'.status) >= Stage(tournament.status)
    ]_vars

====
